---- MODULE Spec2Model ----
(***************************************************************************)
(* A model of problemgen.py: the Term / Expression / Problem classes.      *)
(*                                                                         *)
(* Python lists are sequences; the model keeps the 0-based indices of the  *)
(* source and converts at the access (At, SetAt, DelAt, PySlice).  An      *)
(* operator token is a sequence of one-character strings, so that          *)
(* "'(' in tok" and "tok.replace('(', '')" are modelled by what they do.   *)
(* A Term's value is an exact rational; a value the exact arithmetic of    *)
(* the model does not hold (a non-integer power, a number beyond NumLimit) *)
(* is kept as the unevaluated operation, as the symbolic engine does.      *)
(***************************************************************************)
EXTENDS Integers, Sequences, FiniteSets, TLC

\* ---------------------------------------------------------------- bounds
\* Largest numerator / denominator the model evaluates exactly.
NumLimit == 30000
\* Expressions alive at a time.
MaxObjs == 2
\* Terms a caller passes to the constructor.
MaxNew == 2
\* Terms a caller passes to the constructor in the runs that follow one
\* Expression.
MaxRich == 3
\* Terms of an Expression a closure operator builds.
MaxTerms == 3
\* Largest numerator / denominator of a term that simplify may leave.
MaxVal == 4
\* Closure and simplify calls in the derivation of one Expression.
MaxGen == 2
\* Terms of a combine_terms call that is followed invocation by invocation.
MaxRaw == 3
\* Invocations of combine_terms on the stack at once.
MaxDepth == 12

\* The element of a singleton set: The({f(x) : x \in {e}}) is f(e), with e
\* computed once however often f refers to x.
The(S) == CHOOSE x \in S : TRUE

\* ------------------------------------------------------- Python sequences
Abs(x) == IF x < 0 THEN -x ELSE x

\* s[i] for a 0-based index i that is in range.
At(s, i) == s[i + 1]

\* s[i] = v
SetAt(s, i, v) == [s EXCEPT ![i + 1] = v]

\* del s[i]
DelAt(s, i) == SubSeq(s, 1, i) \o SubSeq(s, i + 2, Len(s))

\* s.insert(i, v) for 0 <= i <= len(s)
InsertAt(s, i, v) == SubSeq(s, 1, i) \o <<v>> \o SubSeq(s, i + 1, Len(s))

\* The bound of a Python slice: a negative bound counts from the end, and
\* the bound is clipped to 0..len(s).
PyBound(s, i) ==
    LET j == IF i < 0 THEN i + Len(s) ELSE i
    IN  IF j < 0 THEN 0 ELSE IF j > Len(s) THEN Len(s) ELSE j

\* s[i:j]
PySlice(s, i, j) == SubSeq(s, PyBound(s, i) + 1, PyBound(s, j))

\* del s[i:j]
PyDelSlice(s, i, j) ==
    IF PyBound(s, i) >= PyBound(s, j) THEN s
    ELSE SubSeq(s, 1, PyBound(s, i)) \o SubSeq(s, PyBound(s, j) + 1, Len(s))

\* The 0-based indices i of s with P(s[i]), in increasing order.
RECURSIVE LocsFrom(_, _, _)
LocsFrom(s, i, ch) ==
    IF i >= Len(s) THEN <<>>
    ELSE (IF \E k \in 1..Len(At(s, i)) : At(s, i)[k] = ch THEN <<i>> ELSE <<>>)
         \o LocsFrom(s, i + 1, ch)

\* x in s (list membership)
PyIn(x, s) == \E k \in 1..Len(s) : s[k] = x

\* The index of the last x in s.
PyIndex_last(s, x) == (CHOOSE k \in 1..Len(s) : s[k] = x /\ \A j \in (k + 1)..Len(s) : s[j] # x) - 1

\* s.index(x), for x in s
PyIndex(s, x) == (CHOOSE k \in 1..Len(s) : s[k] = x /\ \A j \in 1..(k - 1) : s[j] # x) - 1

\* tok.replace(ch, '') for a one-character ch
StripChar(tok, ch) == SelectSeq(tok, LAMBDA x : x # ch)

\* ------------------------------------------------------------ operator tokens
E == <<>>
Tok(c) == <<c>>
OpChars == {"+", "-", "*", "/", "^"}

\* ------------------------------------------------------------------ values
RECURSIVE GCD(_, _)
GCD(a, b) == IF b = 0 THEN a ELSE The({GCD(b, r) : r \in {a % b}})

\* The rational n/d in lowest terms with a positive denominator (d # 0).
Num(n, d) ==
    LET g == GCD(Abs(n), Abs(d))
    IN  [n |-> (IF d < 0 THEN -1 ELSE 1) * (n \div g), d |-> Abs(d) \div g, s |-> <<>>]

Whole(n) == Num(n, 1)

\* An operation the engine keeps unevaluated.
Sym(op, a, b) == [n |-> 0, d |-> 0, s |-> <<op, a, b>>]

\* Python's None, where the code puts it in a place of a Term.
NoneT == [n |-> 0, d |-> 0, s |-> <<"None">>]

IsNum(v) == v.s = <<>>
IsNone(v) == v.s = <<"None">>

\* term.sympy_term == 0
IsZero(v) == IsNum(v) /\ v.n = 0

\* n/d when both fit the exact range, else the operation itself.
Keep(op, a, b, n, d) ==
    IF Abs(Num(n, d).n) <= NumLimit /\ Num(n, d).d <= NumLimit
    THEN Num(n, d)
    ELSE Sym(op, a, b)

\* b^e for e >= 0, stopping once the magnitude leaves the exact range.
RECURSIVE IPow(_, _, _)
IPow(b, e, acc) ==
    IF e = 0 \/ Abs(acc) > NumLimit THEN acc
    ELSE The({IPow(b, e1, acc1) : e1 \in {e - 1}, acc1 \in {acc * b}})

\* b^e for e >= 0; a value beyond NumLimit in magnitude stands for "too large".
SafePow(b, e) ==
    IF b = 0 THEN (IF e = 0 THEN 1 ELSE 0)
    ELSE IF b = 1 THEN 1
    ELSE IF b = -1 THEN (IF e % 2 = 0 THEN 1 ELSE -1)
    ELSE IPow(b, e, 1)

\* ------------------------------------------------- results of a call
\* A call returns a value (st = "ok"; the value is NoneT when the function
\* returns None) or raises the exception st.
Return(v) == [st |-> "ok", v |-> v]
Raise(e) == [st |-> e, v |-> NoneT]

\* A Term came back: the call returned, and not None.
IsTerm(r) == r.st = "ok" /\ ~IsNone(r.v)

\* --------------------------------------------------------------------- Term
\* The operand checks of a Term operator: "None <op> term" finds no operator
\* on None (TypeError); "term <op> None" reads other.sympy_term
\* (AttributeError).
OperandError(a, b) ==
    IF IsNone(a) THEN "TypeError" ELSE IF IsNone(b) THEN "AttributeError" ELSE "ok"

\* Term.__add__: expand(self.sympy_term + other.sympy_term)
Term_add(a, b) ==
    IF OperandError(a, b) # "ok" THEN Raise(OperandError(a, b))
    ELSE IF IsNum(a) /\ IsNum(b)
         THEN Return(Keep("+", a, b, a.n * b.d + b.n * a.d, a.d * b.d))
         ELSE Return(Sym("+", a, b))

\* Term.__sub__
Term_sub(a, b) ==
    IF OperandError(a, b) # "ok" THEN Raise(OperandError(a, b))
    ELSE IF IsNum(a) /\ IsNum(b)
         THEN Return(Keep("-", a, b, a.n * b.d - b.n * a.d, a.d * b.d))
         ELSE Return(Sym("-", a, b))

\* Term.__mul__
Term_mul(a, b) ==
    IF OperandError(a, b) # "ok" THEN Raise(OperandError(a, b))
    ELSE IF IsNum(a) /\ IsNum(b)
         THEN Return(Keep("*", a, b, a.n * b.n, a.d * b.d))
         ELSE Return(Sym("*", a, b))

\* Term.__truediv__: the engine's undefined operation (a zero divisor) is the
\* DomainError of the engine boundary.
Term_truediv(a, b) ==
    IF OperandError(a, b) # "ok" THEN Raise(OperandError(a, b))
    ELSE IF IsZero(b) THEN Raise("DomainError")
    ELSE IF IsNum(a) /\ IsNum(b)
         THEN Return(Keep("/", a, b, a.n * b.d, a.d * b.n))
         ELSE Return(Sym("/", a, b))

\* Term.__pow__: an integer exponent is evaluated, 0 to a negative power is
\* undefined, and any other power stays unevaluated.
Term_pow(a, b) ==
    IF OperandError(a, b) # "ok" THEN Raise(OperandError(a, b))
    ELSE IF ~(IsNum(a) /\ IsNum(b)) THEN Return(Sym("^", a, b))
    ELSE IF b.d # 1
         THEN (IF a = Whole(1) THEN Return(Whole(1))
               ELSE IF IsZero(a) THEN (IF b.n > 0 THEN Return(Whole(0)) ELSE Raise("DomainError"))
               ELSE Return(Sym("^", a, b)))
    ELSE IF b.n >= 0
         THEN (IF Abs(SafePow(a.n, b.n)) <= NumLimit /\ SafePow(a.d, b.n) <= NumLimit
               THEN Return(Num(SafePow(a.n, b.n), SafePow(a.d, b.n)))
               ELSE Return(Sym("^", a, b)))
    ELSE IF IsZero(a) THEN Raise("DomainError")
    ELSE IF Abs(SafePow(a.n, -b.n)) <= NumLimit /\ SafePow(a.d, -b.n) <= NumLimit
         THEN Return(Num(SafePow(a.d, -b.n), SafePow(a.n, -b.n)))
         ELSE Return(Sym("^", a, b))

\* The Term operator an operator character stands for.
TermOp(c, a, b) ==
    CASE c = "+" -> Term_add(a, b)
      [] c = "-" -> Term_sub(a, b)
      [] c = "*" -> Term_mul(a, b)
      [] c = "/" -> Term_truediv(a, b)
      [] c = "^" -> Term_pow(a, b)

\* --------------------------------------------------- Expression.combine_terms
\* left_most_locs / right_most_locs: the indices of the tokens holding ch.
Locs(ops, ch) == LocsFrom(ops, 0, ch)

\* The initial value of closest_dist.
closest_dist0 == 10000

\* A loop that keeps the closing token furthest after L.
closest_loc_far(right_most_locs, L) ==
    LET after == {r \in {right_most_locs[k] : k \in 1..Len(right_most_locs)} :
                    r - L > 0 /\ r - L < closest_dist0}
    IN  IF after = {} THEN -1
        ELSE CHOOSE r \in after : \A q \in after : r >= q

\* The loop over right_most_locs: the index of the closing token nearest
\* after the last opening token L, or -1 when there is none.
closest_loc(right_most_locs, L) ==
    LET after == {r \in {right_most_locs[k] : k \in 1..Len(right_most_locs)} :
                    r - L > 0 /\ r - L < closest_dist0}
    IN  IF after = {} THEN -1
        ELSE CHOOSE r \in after : \A q \in after : r <= q

\* A binary step that writes the result but deletes neither the left term
\* nor the operator token.
BinaryStep_keep(terms, ops, loc, c) ==
    LET li == IF loc = 0 THEN Len(terms) - 1 ELSE loc - 1
    IN  IF Len(terms) = 0 \/ loc >= Len(terms)
        THEN [st |-> "IndexError", terms |-> terms, ops |-> ops]
        ELSE [st |-> TermOp(c, At(terms, li), At(terms, loc)).st,
              terms |-> SetAt(terms, loc, TermOp(c, At(terms, li), At(terms, loc)).v),
              ops |-> ops]

\* One binary step at the token index loc: "del ops[loc]; terms[loc] =
\* terms[loc - 1] <op> terms[loc]; del terms[loc - 1]".  The index loc - 1
\* is -1 when loc = 0, which Python reads as the last element.
\* Gives st = "ok" and the new lists, or the exception raised.
BinaryStep(terms, ops, loc, c) ==
    LET li == IF loc = 0 THEN Len(terms) - 1 ELSE loc - 1
    IN  IF Len(terms) = 0 \/ loc >= Len(terms)
        THEN [st |-> "IndexError", terms |-> terms, ops |-> ops]
        ELSE LET r == TermOp(c, At(terms, li), At(terms, loc))
             IN  IF r.st # "ok"
                 THEN [st |-> r.st, terms |-> terms, ops |-> ops]
                 ELSE [st |-> "ok",
                       terms |-> DelAt(SetAt(terms, loc, r.v), li),
                       ops |-> DelAt(ops, loc)]

\* Which of two operator characters the code applies: the one whose first
\* token is further left; "" when neither is a token of ops.
FirstOf(ops, c1, c2) ==
    LET f1 == PyIn(Tok(c1), ops)
        f2 == PyIn(Tok(c2), ops)
    IN  IF (f1 /\ f2 /\ PyIndex(ops, Tok(c1)) < PyIndex(ops, Tok(c2))) \/ (f1 /\ ~f2) THEN c1
        ELSE IF (f1 /\ f2 /\ PyIndex(ops, Tok(c2)) < PyIndex(ops, Tok(c1))) \/ (f2 /\ ~f1) THEN c2
        ELSE ""

\* A choice of operator that ignores precedence: the leftmost operator token.
NextOp_leftmost(ops) ==
    LET at == {k \in 1..Len(ops) : \E c \in OpChars : ops[k] = Tok(c)}
    IN  IF at = {} THEN "" ELSE ops[CHOOSE k \in at : \A j \in at : k <= j][1]

\* The operator character of the binary step the code takes on lists without
\* grouping marks: "^" first, then the leftmost of "*" "/", then the
\* leftmost of "+" "-"; "" when it falls through.
NextOp(ops) ==
    IF PyIn(Tok("^"), ops) THEN "^"
    ELSE IF FirstOf(ops, "*", "/") # "" THEN FirstOf(ops, "*", "/")
    ELSE FirstOf(ops, "+", "-")

\* A replacement that deletes the enclosed terms and inserts nothing.
Splice_drop(terms, ops, L, closest, new_term) ==
    LET ops1 == PyDelSlice(ops, L + 1, closest)
        ops2 == SetAt(ops1, L, StripChar(At(ops1, L), "("))
    IN  [terms |-> PyDelSlice(terms, L, closest),
         ops |-> SetAt(ops2, L + 1, StripChar(At(ops2, L + 1), ")"))]

\* The lists after the enclosed operation was replaced by new_term and the
\* enclosure marks were removed.
Splice(terms, ops, L, closest, new_term) ==
    LET ops1 == PyDelSlice(ops, L + 1, closest)
        terms1 == InsertAt(PyDelSlice(terms, L, closest), L, new_term)
        ops2 == SetAt(ops1, L, StripChar(At(ops1, L), "("))
    IN  [terms |-> terms1,
         ops |-> SetAt(ops2, L + 1, StripChar(At(ops2, L + 1), ")"))]

\* A slice of the group's terms that runs one term too far.
InnerTerms_wide(terms, L, closest) == PySlice(terms, L, closest + 1)

\* The inner call's arguments for the group opened at L.
InnerTerms(terms, L, closest) == PySlice(terms, L, closest)
InnerOps(ops, L, closest) == <<E>> \o PySlice(ops, L + 1, closest) \o <<E>>

RECURSIVE combine_terms(_, _)
combine_terms(terms, ops) ==
    IF Len(ops) # Len(terms) + 1 THEN Raise("AssertionError")
    ELSE IF Len(terms) = 1 THEN Return(terms[1])
    ELSE
    LET left_most_locs == Locs(ops, "(")
        right_most_locs == Locs(ops, ")")
    IN  IF Len(left_most_locs) # Len(right_most_locs) THEN Raise("AssertionError")
        ELSE IF Len(left_most_locs) # 0
        THEN IF ~(left_most_locs[1] < right_most_locs[1]) THEN Raise("AssertionError")
             ELSE LET L == left_most_locs[Len(left_most_locs)]
                      closest == closest_loc(right_most_locs, L)
                  IN  The({ The({ IF new_term.st # "ok" THEN new_term
                                  ELSE The({ combine_terms(sp.terms, sp.ops) :
                                             sp \in {Splice(terms, ops, L, closest, new_term.v)} }) :
                                  new_term \in {combine_terms(in.terms, in.ops)} }) :
                            in \in {[terms |-> InnerTerms(terms, L, closest),
                                     ops |-> InnerOps(ops, L, closest)]} })
        ELSE IF NextOp(ops) = "" THEN Return(NoneT)
        ELSE The({ IF b.st # "ok" THEN Raise(b.st) ELSE combine_terms(b.terms, b.ops) :
                   b \in {BinaryStep(terms, ops, PyIndex(ops, Tok(NextOp(ops))), NextOp(ops))} })

\* ------------------------------------------------------ Expression: pruning
\* The loop of zero_clean from index i down to 0 on e = [st, ur, rd, ops].
\* "del" on an index the list does not have raises IndexError, and reading
\* .sympy_term of None raises AttributeError; what was deleted before the
\* exception stays deleted.
RECURSIVE zero_clean_loop(_, _)
zero_clean_loop(e, i) ==
    IF i < 0 THEN e
    ELSE IF IsNone(At(e.ur, i)) THEN [e EXCEPT !.st = "AttributeError"]
    ELSE IF ~IsZero(At(e.ur, i)) THEN zero_clean_loop(e, i - 1)
    ELSE IF i >= Len(e.rd)
         THEN [e EXCEPT !.st = "IndexError", !.ur = DelAt(e.ur, i)]
    ELSE IF i >= Len(e.ops)
         THEN [e EXCEPT !.st = "IndexError", !.ur = DelAt(e.ur, i), !.rd = DelAt(e.rd, i)]
    ELSE The({ zero_clean_loop(e1, i - 1) :
               e1 \in {[e EXCEPT !.ur = DelAt(e.ur, i), !.rd = DelAt(e.rd, i),
                                 !.ops = DelAt(e.ops, i)]} })

\* A pruning that tests the reduced term instead of the unreduced one.
zero_clean_rd(ur, rd, ops) ==
    The({ [st |-> z.st, ur |-> z.rd, rd |-> z.ur, ops |-> z.ops] :
          z \in {zero_clean_loop([st |-> "ok", ur |-> rd, rd |-> ur, ops |-> ops],
                                 Len(rd) - 1)} })

\* A pruning that deletes the token after the pruned term.
RECURSIVE zero_clean_loop_after(_, _)
zero_clean_loop_after(e, i) ==
    IF i < 0 THEN e
    ELSE IF ~IsZero(At(e.ur, i)) THEN zero_clean_loop_after(e, i - 1)
    ELSE IF i >= Len(e.rd) \/ i + 1 >= Len(e.ops) THEN [e EXCEPT !.st = "IndexError"]
    ELSE The({ zero_clean_loop_after(e1, i - 1) :
               e1 \in {[e EXCEPT !.ur = DelAt(e.ur, i), !.rd = DelAt(e.rd, i),
                                 !.ops = DelAt(e.ops, i + 1)]} })

zero_clean_after(ur, rd, ops) ==
    The({ zero_clean_loop_after(e, Len(ur) - 1) :
          e \in {[st |-> "ok", ur |-> ur, rd |-> rd, ops |-> ops]} })

\* A pruning that removes nothing.
zero_clean_skip(ur, rd, ops) == [st |-> "ok", ur |-> ur, rd |-> rd, ops |-> ops]

\* Expression.zero_clean on the three lists of an Expression.
zero_clean(ur, rd, ops) ==
    The({ zero_clean_loop(e, Len(ur) - 1) :
          e \in {[st |-> "ok", ur |-> ur, rd |-> rd, ops |-> ops]} })

\* A constructor that does not compare the lengths of the two term lists.
InitAsserts_ops(ur, rd, ops) == Len(ops) = Len(ur) + 1

\* The two assertions of Expression.__init__.
InitAsserts(ur, rd, ops) == Len(ops) = Len(ur) + 1 /\ Len(ur) = Len(rd)

\* The operator list a closure operator builds for the character c.
ClosureOps(selfops, c, otherops) ==
    <<Tok("(")>> \o PySlice(selfops, 1, -1) \o << <<")", c, "(">> >>
        \o PySlice(otherops, 1, -1) \o <<Tok(")")>>

\* ------------------------------------------------------------------ text
\* A text is a sequence of characters.  A call that builds a text returns
\* [st, t]: the text t, or the exception st.
Text(t) == [st |-> "ok", t |-> t]
NoText(e) == [st |-> e, t |-> <<>>]

DigitChars == <<"0", "1", "2", "3", "4", "5", "6", "7", "8", "9">>

\* str(n) for a natural number n
RECURSIVE NatStr(_)
NatStr(n) ==
    IF n < 10 THEN <<DigitChars[n + 1]>>
    ELSE The({NatStr(q) : q \in {n \div 10}}) \o <<DigitChars[(n % 10) + 1]>>

\* Term.str_term = str(sympy_term): "-3", "2/3", and an unevaluated
\* operation with its operands in parentheses.
RECURSIVE str_term(_)
str_term(v) ==
    IF IsNum(v)
    THEN (IF v.n < 0 THEN <<"-">> ELSE <<>>) \o NatStr(Abs(v.n))
         \o (IF v.d = 1 THEN <<>> ELSE <<"/">> \o NatStr(v.d))
    ELSE <<"(">> \o str_term(v.s[2]) \o <<")">>
         \o (IF v.s[1] = "^" THEN <<"*", "*">> ELSE <<v.s[1]>>)
         \o <<"(">> \o str_term(v.s[3]) \o <<")">>

\* Term.latex_term = latex(sympy_term): "-3", "\frac{2}{3}", "- \frac{2}{3}".
RECURSIVE latex_term(_)
latex_term(v) ==
    IF IsNum(v)
    THEN (IF v.d = 1
          THEN (IF v.n < 0 THEN <<"-">> ELSE <<>>) \o NatStr(Abs(v.n))
          ELSE (IF v.n < 0 THEN <<"-", " ">> ELSE <<>>)
               \o <<"\\", "f", "r", "a", "c", "{">> \o NatStr(Abs(v.n)) \o <<"}", "{">>
               \o NatStr(v.d) \o <<"}">>)
    ELSE <<"(">> \o latex_term(v.s[2]) \o <<")">>
         \o (IF v.s[1] = "^" THEN <<"^">> ELSE <<v.s[1]>>)
         \o <<"{">> \o latex_term(v.s[3]) \o <<"}">>

\* s.replace(a + b, new) for the two characters a, b: the occurrences are
\* found left to right and do not overlap.
RECURSIVE ReplaceFrom(_, _, _, _, _)
ReplaceFrom(s, i, a, b, new) ==
    IF i > Len(s) THEN <<>>
    ELSE IF i < Len(s) /\ s[i] = a /\ s[i + 1] = b
         THEN new \o ReplaceFrom(s, i + 2, a, b, new)
         ELSE <<s[i]>> \o ReplaceFrom(s, i + 1, a, b, new)

Replace2(s, a, b, new) == The({ReplaceFrom(t, 1, a, b, new) : t \in {s}})

\* A culling that leaves one "-" of "--".
CullSigns_minus(s) ==
    Replace2(Replace2(Replace2(Replace2(s, "+", "-", <<"-">>),
                               "-", "+", <<"-">>),
                      "-", "-", <<"-">>),
             "+", "+", <<"+">>)

\* A culling without the "--" rule.
CullSigns_three(s) ==
    Replace2(Replace2(Replace2(s, "+", "-", <<"-">>), "-", "+", <<"-">>), "+", "+", <<"+">>)

\* "Culling repeated signs": the four replace calls, once each, in order.
CullSigns(s) ==
    Replace2(Replace2(Replace2(Replace2(s, "+", "-", <<"-">>),
                               "-", "+", <<"-">>),
                      "-", "-", <<"+">>),
             "+", "+", <<"+">>)

\* Problem.convert_op_to_latex
convert_op_to_latex(op) ==
    IF op = <<"*">> THEN <<"\\", "c", "d", "o", "t">>
    ELSE IF op = <<"/">> THEN <<"\\", "d", "i", "v">>
    ELSE IF op = <<">", "=">> THEN <<"\\", "g", "e", "q">>
    ELSE IF op = <<"<", "=">> THEN <<"\\", "l", "e", "q">>
    ELSE IF op = <<"!", "=">> THEN <<"\\", "n", "e", "q">>
    ELSE op

\* The loop that joins operations[i] and the text of unreduced_terms[i],
\* from index i on: operations[i] is read first (IndexError), then the
\* term's text (AttributeError on None).
RECURSIVE JoinFrom(_, _, _, _)
JoinFrom(ur, ops, i, latex) ==
    IF i >= Len(ur) THEN Text(<<>>)
    ELSE IF i >= Len(ops) THEN NoText("IndexError")
    ELSE IF IsNone(At(ur, i)) THEN NoText("AttributeError")
    ELSE The({ IF rest.st # "ok" THEN rest
               ELSE Text((IF latex THEN convert_op_to_latex(At(ops, i)) \o latex_term(At(ur, i))
                          ELSE At(ops, i) \o str_term(At(ur, i))) \o rest.t) :
               rest \in {JoinFrom(ur, ops, i + 1, latex)} })

\* The question before the culling: the joined terms, then operations[-1].
RawQuestion(ur, ops, latex) ==
    The({ IF body.st # "ok" THEN body
          ELSE IF Len(ops) = 0 THEN NoText("IndexError")
          ELSE Text(body.t \o (IF latex THEN convert_op_to_latex(ops[Len(ops)])
                               ELSE ops[Len(ops)])) :
          body \in {JoinFrom(ur, ops, 0, latex)} })

\* Problem.str_question_from_expression
str_question_from_expression(ur, ops) ==
    The({ IF raw.st # "ok" THEN raw ELSE Text(CullSigns(raw.t)) :
          raw \in {RawQuestion(ur, ops, FALSE)} })

\* Problem.latex_question_from_expression
latex_question_from_expression(ur, ops) ==
    The({ IF raw.st # "ok" THEN raw ELSE Text(CullSigns(raw.t)) :
          raw \in {RawQuestion(ur, ops, TRUE)} })

\* Problem.str_solution_from_expression: combine_terms(...).str_term
str_solution_from_expression(rd, ops) ==
    The({ IF r.st # "ok" THEN NoText(r.st)
          ELSE IF IsNone(r.v) THEN NoText("AttributeError")
          ELSE Text(str_term(r.v)) :
          r \in {combine_terms(rd, ops)} })

\* Problem.latex_solution_from_expression: combine_terms(...).latex_term
latex_solution_from_expression(rd, ops) ==
    The({ IF r.st # "ok" THEN NoText(r.st)
          ELSE IF IsNone(r.v) THEN NoText("AttributeError")
          ELSE Text(latex_term(r.v)) :
          r \in {combine_terms(rd, ops)} })

\* The four texts of a Problem.
NoProblem == [str_question |-> <<>>, str_solution |-> <<>>,
              latex_question |-> <<>>, latex_solution |-> <<>>]

\* Problem.__init__ for an Expression: the four texts in the order the
\* code computes them; the first exception ends the construction.
ProblemOf(ur, rd, ops) ==
    The({ LET st == IF sq.st # "ok" THEN sq.st ELSE IF ss.st # "ok" THEN ss.st
                    ELSE IF lq.st # "ok" THEN lq.st ELSE ls.st
          IN  [st |-> st,
               p |-> IF st # "ok" THEN NoProblem
                     ELSE [str_question |-> sq.t, str_solution |-> ss.t,
                           latex_question |-> lq.t, latex_solution |-> ls.t]] :
          sq \in {str_question_from_expression(ur, ops)},
          ss \in {str_solution_from_expression(rd, ops)},
          lq \in {latex_question_from_expression(ur, ops)},
          ls \in {latex_solution_from_expression(rd, ops)} })

\* ------------------------------------------------------------------ state
VARIABLES
    heap,   \* the operator lists: heap[r] is the list object with reference r
    objs,   \* the Expressions alive: [ur, rd, ops, via, gen], ops a reference
    last,   \* the last call: its name, outcome, object, arguments, Problem
    call,   \* the arguments of the outermost combine_terms call being followed
    frames, \* the stack of its combine_terms invocations, innermost last
    ret,    \* what the invocation that ended last returned or raised
    problem_list, \* Generator.problem_list: the Problems held, in order
    pending,      \* the local Problem of a running add_frac_to_dec / add_dec_to_frac
    returned      \* the last Generator call: its name, argument and return value

genvars == <<problem_list, pending, returned>>

vars == <<heap, objs, last, call, frames, ret, problem_list, pending, returned>>

\* No invocation has ended since the last one began.
Running == [st |-> "", v |-> NoneT]

\* The three lists of an argument of a call, as they were when it began.
Pre(ur, rd, ops) == [ur |-> ur, rd |-> rd, ops |-> ops]

\* The record of a call: op its name, st "ok" or the exception, obj the
\* index of the Expression it made or changed (0: none), args the lists of
\* its arguments when the call began (the lists given to the constructor, the
\* Expression a method was called on, the two operands of a closure
\* operator), prob the Problem a rendering made.
Call(op, st, obj, args, prob) ==
    [op |-> op, st |-> st, obj |-> obj, args |-> args, prob |-> prob]

\* The references of the Expressions o[k..], in the order they first occur.
RECURSIVE RefOrder(_, _, _)
RefOrder(o, k, acc) ==
    IF k > Len(o) THEN acc
    ELSE RefOrder(o, k + 1,
                  IF \E j \in 1..Len(acc) : acc[j] = o[k].ops THEN acc
                  ELSE Append(acc, o[k].ops))

\* Garbage collection: the lists no Expression refers to are dropped, and the
\* references renumbered in the order the Expressions use them.
Collect(h, o) ==
    LET order == RefOrder(o, 1, <<>>)
        Pos(r) == CHOOSE k \in 1..Len(order) : order[k] = r
    IN  [heap |-> [k \in 1..Len(order) |-> h[order[k]]],
         objs |-> [i \in 1..Len(o) |-> [o[i] EXCEPT !.ops = Pos(o[i].ops)]]]

Step(h, o, l) ==
    \E c \in {Collect(h, o)} :
        /\ heap' = c.heap
        /\ objs' = c.objs
        /\ last' = l
        /\ UNCHANGED <<call, frames, ret, genvars>>

\* via is "simplify" while simplify is the last call that wrote the terms of
\* the Expression; gen counts the closure and simplify calls it was derived by.
Obj(ur, rd, ref, via, gen) == [ur |-> ur, rd |-> rd, ops |-> ref, via |-> via, gen |-> gen]

\* The operator list of the Expression objs[i].
OpsOf(i) == heap[objs[i].ops]

\* ------------------------------------------------- what the callers pass
\* The pairs (unreduced term, reduced term) of one position.
TermPairs ==
    { <<Whole(2), Whole(2)>>, <<Whole(0), Whole(0)>> }

\* The pairs of the runs that follow one Expression: a negative term, and
\* terms that are zero in one track only.
RichPairs ==
    TermPairs \cup { <<Whole(-3), Whole(-3)>>, <<Whole(2), Whole(0)>>, <<Whole(0), Whole(2)>> }

\* The operator characters of the lists the callers build.
PlainChars == {"-", "*"}

\* The operator lists with empty first and last tokens and single operator
\* characters between, for n terms.
PlainOps(n, chars) ==
    { <<E>> \o mid \o <<E>> : mid \in [1..(n - 1) -> {Tok(c) : c \in chars}] }

\* --------------------------------------------------------------- actions
\* Expression(unreduced_terms, reduced_terms, operations) on a list the
\* caller has just built.
Construct(ur, rd, ops, op, args) ==
    IF ~InitAsserts(ur, rd, ops)
    THEN Step(heap, objs, Call(op, "AssertionError", 0, args, NoProblem))
    ELSE \E z \in {zero_clean(ur, rd, ops)} :
             IF z.st # "ok"
             THEN Step(heap, objs, Call(op, z.st, 0, args, NoProblem))
             ELSE Step(Append(heap, z.ops),
                       Append(objs, Obj(z.ur, z.rd, Len(heap) + 1, "", 0)),
                       Call(op, "ok", Len(objs) + 1, args, NoProblem))

\* The constructor on n <= maxn terms drawn from pairs and a plain operator
\* list over chars.
NewFrom(maxn, pairs, chars) ==
    \E n \in 1..maxn : \E ps \in [1..n -> pairs] : \E ops \in PlainOps(n, chars) :
        Construct([k \in 1..n |-> ps[k][1]], [k \in 1..n |-> ps[k][2]], ops, "init",
                  <<Pre([k \in 1..n |-> ps[k][1]], [k \in 1..n |-> ps[k][2]], ops)>>)

NewExpression ==
    /\ Len(objs) < MaxObjs
    /\ NewFrom(MaxNew, TermPairs, PlainChars)

\* The constructor on a richer choice of terms and operators, for the runs
\* that follow one Expression.
NewRich ==
    /\ objs = <<>>
    /\ NewFrom(MaxRich, RichPairs, OpChars)

\* The lists of a caller that built them with the wrong lengths: a reduced
\* list or an operator list one element too short or too long.
Mismatched ==
    { Pre(ur, rd, ops) :
        ur \in {<<Whole(2)>>, <<Whole(0), Whole(2)>>},
        rd \in {<<>>, <<Whole(2)>>, <<Whole(0), Whole(2)>>},
        ops \in {<<E, E>>, <<E, Tok("-"), E>>} }
    \ { a \in { Pre(ur, rd, ops) :
                   ur \in {<<Whole(2)>>, <<Whole(0), Whole(2)>>},
                   rd \in {<<>>, <<Whole(2)>>, <<Whole(0), Whole(2)>>},
                   ops \in {<<E, E>>, <<E, Tok("-"), E>>} } :
          Len(a.ur) = Len(a.rd) /\ Len(a.ops) = Len(a.ur) + 1 }

\* The constructor on lists of the wrong lengths, as the first call.
NewMismatched ==
    /\ objs = <<>>
    /\ \E a \in Mismatched : Construct(a.ur, a.rd, a.ops, "init", <<a>>)

\* e.copy(): the new Expression keeps the operator list of e, and its
\* zero_clean deletes from that list.
Copy(i) ==
    /\ Len(objs) < MaxObjs
    /\ LET e == objs[i]
           pre == <<Pre(e.ur, e.rd, OpsOf(i))>>
       IN  IF ~InitAsserts(e.ur, e.rd, OpsOf(i))
           THEN Step(heap, objs, Call("copy", "AssertionError", 0, pre, NoProblem))
           ELSE \E z \in {zero_clean(e.ur, e.rd, OpsOf(i))} :
                LET h == [heap EXCEPT ![e.ops] = z.ops]
                IN  IF z.st # "ok"
                    THEN Step(h, objs, Call("copy", z.st, 0, pre, NoProblem))
                    ELSE Step(h, Append(objs, Obj(z.ur, z.rd, e.ops, "", e.gen)),
                              Call("copy", "ok", Len(objs) + 1, pre, NoProblem))

\* A value small enough for simplify to leave in an Expression of the model.
Small(v) == IsNone(v) \/ (IsNum(v) /\ Abs(v.n) <= MaxVal /\ v.d <= MaxVal)

\* A simplify that combines the reduced terms for both tracks.
Simplify_reduced(i) ==
    LET e == objs[i]
        pre == <<Pre(e.ur, e.rd, OpsOf(i))>>
    IN  \E unreduced_term \in {combine_terms(e.rd, OpsOf(i))},
           reduced_term \in {combine_terms(e.rd, OpsOf(i))} :
        IF unreduced_term.st # "ok"
        THEN Step(heap, objs, Call("simplify", unreduced_term.st, i, pre, NoProblem))
        ELSE /\ Small(unreduced_term.v) /\ Small(reduced_term.v)
             /\ e.gen < MaxGen
             /\ Step(Append(heap, <<E, E>>),
                     [objs EXCEPT ![i] = Obj(<<unreduced_term.v>>, <<reduced_term.v>>,
                                             Len(heap) + 1, "simplify", e.gen + 1)],
                     Call("simplify", "ok", i, pre, NoProblem))

\* e.simplify()
Simplify(i) ==
    LET e == objs[i]
        pre == <<Pre(e.ur, e.rd, OpsOf(i))>>
    IN  \E unreduced_term \in {combine_terms(e.ur, OpsOf(i))},
           reduced_term \in {combine_terms(e.rd, OpsOf(i))} :
        IF unreduced_term.st # "ok"
        THEN Step(heap, objs, Call("simplify", unreduced_term.st, i, pre, NoProblem))
        ELSE IF reduced_term.st # "ok"
        THEN Step(heap, objs, Call("simplify", reduced_term.st, i, pre, NoProblem))
        ELSE /\ Small(unreduced_term.v) /\ Small(reduced_term.v)
             /\ e.gen < MaxGen
             /\ Step(Append(heap, <<E, E>>),
                     [objs EXCEPT ![i] = Obj(<<unreduced_term.v>>, <<reduced_term.v>>,
                                             Len(heap) + 1, "simplify", e.gen + 1)],
                     Call("simplify", "ok", i, pre, NoProblem))

\* e.zero_clean(), called on an Expression that exists.
ZeroClean(i) ==
    LET e == objs[i]
        pre == <<Pre(e.ur, e.rd, OpsOf(i))>>
    IN  \E z \in {zero_clean(e.ur, e.rd, OpsOf(i))} :
        Step([heap EXCEPT ![e.ops] = z.ops],
             [objs EXCEPT ![i] = Obj(z.ur, z.rd, e.ops, "", e.gen)],
             Call("zero_clean", z.st, i, pre, NoProblem))

\* The two Expressions objs[i], objs[j] taken out of the sequence o.
Without(o, i, j) ==
    LET keep == {k \in 1..Len(o) : k # i /\ k # j}
        F[k \in 0..Len(o)] ==
            IF k = 0 THEN <<>> ELSE IF k \in keep THEN Append(F[k - 1], o[k]) ELSE F[k - 1]
    IN  F[Len(o)]

\* The closure operators self <c> other.  When the operands are two
\* Expressions the caller keeps only the result ("expr = expr * f" in a
\* loop over factors it does not use again); self <c> self keeps self.
Closure(i, j, c) ==
    /\ i = j => Len(objs) < MaxObjs
    /\ Len(objs[i].ur) + Len(objs[j].ur) <= MaxTerms
    /\ objs[i].gen < MaxGen /\ objs[j].gen < MaxGen
    /\ LET ur == objs[i].ur \o objs[j].ur
           rd == objs[i].rd \o objs[j].rd
           ops == ClosureOps(OpsOf(i), c, OpsOf(j))
           pre == <<Pre(objs[i].ur, objs[i].rd, OpsOf(i)), Pre(objs[j].ur, objs[j].rd, OpsOf(j))>>
           rest == IF i = j THEN objs ELSE Without(objs, i, j)
       IN  IF ~InitAsserts(ur, rd, ops)
           THEN Step(heap, objs, Call(c, "AssertionError", 0, pre, NoProblem))
           ELSE \E z \in {zero_clean(ur, rd, ops)} :
                    IF z.st # "ok"
                    THEN Step(heap, objs, Call(c, z.st, 0, pre, NoProblem))
                    ELSE
                    Step(Append(heap, z.ops),
                         Append(rest, Obj(z.ur, z.rd, Len(heap) + 1, "",
                                          1 + (IF objs[i].gen > objs[j].gen THEN objs[i].gen ELSE objs[j].gen))),
                         Call(c, "ok", Len(rest) + 1, pre, NoProblem))

\* The coefficients gen_algebraic_expression multiplies the terms by.
Coeffs == {Whole(0), Whole(1)}

\* The coefficient loop of gen_algebraic_expression and its zero_clean: the
\* terms of both tracks are multiplied in place by coeff, then pruned.
ScaleTerms(i, coeff) ==
    LET e == objs[i]
        ur == [k \in 1..Len(e.ur) |-> Term_mul(e.ur[k], coeff[k]).v]
        rd == [k \in 1..Len(e.rd) |-> Term_mul(e.rd[k], coeff[k]).v]
    IN  /\ Len(e.ur) = Len(e.rd)
        /\ \A k \in 1..Len(e.ur) : IsNum(e.ur[k]) /\ IsNum(e.rd[k])
        /\ \E z \in {zero_clean(ur, rd, OpsOf(i))} :
           Step([heap EXCEPT ![e.ops] = z.ops],
                [objs EXCEPT ![i] = Obj(z.ur, z.rd, e.ops, "", e.gen)],
                Call("coeff", z.st, i, <<Pre(ur, rd, OpsOf(i))>>, NoProblem))

\* The caller drops its reference to an Expression.
Forget(i) ==
    Step(heap, DelAt(objs, i - 1), Call("del", "ok", 0, <<>>, NoProblem))

\* Problem(e)
Render(i) ==
    LET e == objs[i]
    IN  \E r \in {ProblemOf(e.ur, e.rd, OpsOf(i))} :
        Step(heap, objs, Call("Problem", r.st, i, <<Pre(e.ur, e.rd, OpsOf(i))>>, r.p))

Init ==
    /\ heap = <<>>
    /\ objs = <<>>
    /\ last = Call("", "ok", 0, <<>>, NoProblem)
    /\ call = [terms |-> <<>>, ops |-> <<>>]
    /\ frames = <<>>
    /\ ret = Running
    /\ problem_list = <<>>
    /\ pending = [pc |-> "", kind |-> "", p |-> NoProblem, v |-> NoneT]
    /\ returned = [op |-> "", p |-> NoProblem, r |-> "None"]

Next ==
    \/ NewExpression
    \/ NewMismatched
    \/ \E i \in 1..Len(objs) : Copy(i)
    \/ \E i \in 1..Len(objs) : Simplify(i)
    \/ \E i \in 1..Len(objs) : ZeroClean(i)
    \/ \E i \in 1..Len(objs), j \in 1..Len(objs), c \in OpChars : Closure(i, j, c)
    \/ \E i \in 1..Len(objs) : Forget(i)
    \/ \E i \in 1..Len(objs) : Render(i)

Spec == Init /\ [][Next]_vars

\* The Expressions a caller holds when it keeps the operands of a closure
\* operator beside the result.
MaxKept == 3

\* A closure operator that builds its result on the operator list of self.
KeepClosure_shared(i, j, c) ==
    /\ Len(objs) < MaxKept
    /\ Len(objs[i].ur) + Len(objs[j].ur) <= MaxTerms
    /\ objs[i].gen < MaxGen /\ objs[j].gen < MaxGen
    /\ LET ur == objs[i].ur \o objs[j].ur
           rd == objs[i].rd \o objs[j].rd
           ops == ClosureOps(OpsOf(i), c, OpsOf(j))
           pre == <<Pre(objs[i].ur, objs[i].rd, OpsOf(i)), Pre(objs[j].ur, objs[j].rd, OpsOf(j))>>
       IN  IF ~InitAsserts(ur, rd, ops)
           THEN Step(heap, objs, Call(c, "AssertionError", 0, pre, NoProblem))
           ELSE \E z \in {zero_clean(ur, rd, ops)} :
                    IF z.st # "ok"
                    THEN Step(heap, objs, Call(c, z.st, 0, pre, NoProblem))
                    ELSE
                    Step([heap EXCEPT ![objs[i].ops] = z.ops],
                         Append(objs, Obj(z.ur, z.rd, objs[i].ops, "",
                                          1 + (IF objs[i].gen > objs[j].gen THEN objs[i].gen ELSE objs[j].gen))),
                         Call(c, "ok", Len(objs) + 1, pre, NoProblem))

\* The closure operators self <c> other of a caller that keeps both operands:
\* "r = p + q".
KeepClosure(i, j, c) ==
    /\ Len(objs) < MaxKept
    /\ Len(objs[i].ur) + Len(objs[j].ur) <= MaxTerms
    /\ objs[i].gen < MaxGen /\ objs[j].gen < MaxGen
    /\ LET ur == objs[i].ur \o objs[j].ur
           rd == objs[i].rd \o objs[j].rd
           ops == ClosureOps(OpsOf(i), c, OpsOf(j))
           pre == <<Pre(objs[i].ur, objs[i].rd, OpsOf(i)), Pre(objs[j].ur, objs[j].rd, OpsOf(j))>>
       IN  IF ~InitAsserts(ur, rd, ops)
           THEN Step(heap, objs, Call(c, "AssertionError", 0, pre, NoProblem))
           ELSE \E z \in {zero_clean(ur, rd, ops)} :
                    IF z.st # "ok"
                    THEN Step(heap, objs, Call(c, z.st, 0, pre, NoProblem))
                    ELSE
                    Step(Append(heap, z.ops),
                         Append(objs, Obj(z.ur, z.rd, Len(heap) + 1, "",
                                          1 + (IF objs[i].gen > objs[j].gen THEN objs[i].gen ELSE objs[j].gen))),
                         Call(c, "ok", Len(objs) + 1, pre, NoProblem))

\* The runs of a caller that keeps the operands of its closure operators.
NextKeep ==
    \/ NewExpression
    \/ \E i \in 1..Len(objs) : Simplify(i)
    \/ \E i \in 1..Len(objs), j \in 1..Len(objs), c \in OpChars : KeepClosure(i, j, c)
    \/ \E i \in 1..Len(objs) : Render(i)

SpecKeep == Init /\ [][NextKeep]_vars

\* The runs that follow one Expression from a richer constructor call.
NextOne ==
    \/ NewRich
    \/ \E i \in 1..Len(objs) : Simplify(i)
    \/ \E i \in 1..Len(objs) : ZeroClean(i)
    \/ \E i \in 1..Len(objs) : \E coeff \in [1..Len(objs[i].ur) -> Coeffs] : ScaleTerms(i, coeff)
    \/ \E i \in 1..Len(objs) : Forget(i)
    \/ \E i \in 1..Len(objs) : Render(i)

SpecOne == Init /\ [][NextOne]_vars

\* ------------------------------------- combine_terms, invocation by invocation
\* The values of the terms of a followed call.
RawVals == {Whole(2), Whole(3)}

\* The operator lists of a followed call on n terms: the first token is empty
\* or opens a group, the last is empty or closes one, and a token between two
\* terms is an operator character, alone or fused with the mark that closes a
\* group before it, opens one after it, or both.
RawMid == UNION { {Tok(c), <<c, "(">>, <<")", c>>, <<")", c, "(">>} : c \in OpChars }

RawOps(n) ==
    IF n = 0 THEN {<<E>>}
    ELSE { <<first>> \o mid \o <<lst>> :
           first \in {E, Tok("(")}, mid \in [1..(n - 1) -> RawMid], lst \in {E, Tok(")")} }

\* The operator lists of a caller that left a token between two terms
\* empty: any of the tokens between the n terms is empty, "+" or "*", and
\* one at least is empty.
BlankOps(n) ==
    IF n < 2 THEN {}
    ELSE { <<first>> \o mid \o <<lst>> :
           first \in {E, Tok("(")}, mid \in [1..(n - 1) -> {E, Tok("+"), Tok("*")}],
           lst \in {E, Tok(")")} }
         \ RawOps(n)

\* The calls followed: well-formed and grouped lists, lists whose marks do
\* not balance, plain lists one token too long or too short, and lists with
\* an empty token between two terms.
RawCalls ==
    UNION { { [terms |-> t, ops |-> o] :
              t \in [1..n -> RawVals],
              o \in RawOps(n) \cup PlainOps(n + 1, OpChars)
                     \cup (IF n > 1 THEN PlainOps(n - 1, OpChars) ELSE {})
                     \cup BlankOps(n) } :
            n \in 0..MaxRaw }

\* An invocation: its lists (the copies it works on), and what it waits for:
\* "" (running), "group" (the inner call on the group opened at L and closed
\* at closest), "tail" (the recursive call whose result it returns).
Frame(terms, ops) == [terms |-> terms, ops |-> ops, wait |-> "", L |-> 0, closest |-> 0]

Top == frames[Len(frames)]

\* The invocation on top is running.
Active == frames # <<>> /\ ret = Running /\ Top.wait = ""

\* Assertions that do not compare the numbers of opening and closing tokens.
AssertsHold_nocount(terms, ops) ==
    /\ Len(ops) = Len(terms) + 1
    /\ (Len(terms) # 1 /\ Len(Locs(ops, "(")) # 0 /\ Len(Locs(ops, ")")) # 0)
           => Locs(ops, "(")[1] < Locs(ops, ")")[1]

\* The assertions of an invocation hold: the lengths, and for two or more
\* terms with grouping marks, their counts and the order of the first two.
AssertsHold(terms, ops) ==
    /\ Len(ops) = Len(terms) + 1
    /\ Len(terms) # 1 =>
        /\ Len(Locs(ops, "(")) = Len(Locs(ops, ")"))
        /\ Len(Locs(ops, "(")) # 0 => Locs(ops, "(")[1] < Locs(ops, ")")[1]

\* The invocation on top ends with r.
Finish(r) ==
    /\ frames' = SubSeq(frames, 1, Len(frames) - 1)
    /\ ret' = r
    /\ UNCHANGED <<heap, objs, last, call, genvars>>

\* The invocation on top calls combine_terms(terms, ops) and waits as w.
Invoke(w, terms, ops) ==
    /\ Len(frames) < MaxDepth
    /\ frames' = [frames EXCEPT ![Len(frames)] = w] \o <<Frame(terms, ops)>>
    /\ ret' = Running
    /\ UNCHANGED <<heap, objs, last, call, genvars>>

\* An assertion fails.
combine_Assert ==
    /\ Active
    /\ ~AssertsHold(Top.terms, Top.ops)
    /\ Finish(Raise("AssertionError"))

\* The base case: one term.
combine_Base ==
    /\ Active
    /\ AssertsHold(Top.terms, Top.ops)
    /\ Len(Top.terms) = 1
    /\ Finish(Return(Top.terms[1]))

\* The grouping case: the inner call on the last group opened.
combine_Group ==
    /\ Active
    /\ AssertsHold(Top.terms, Top.ops)
    /\ Len(Top.terms) # 1
    /\ Len(Locs(Top.ops, "(")) # 0
    /\ \E L \in {Locs(Top.ops, "(")[Len(Locs(Top.ops, "("))]} :
       \E closest \in {closest_loc(Locs(Top.ops, ")"), L)} :
          Invoke([Top EXCEPT !.wait = "group", !.L = L, !.closest = closest],
                 InnerTerms(Top.terms, L, closest), InnerOps(Top.ops, L, closest))

\* The inner call returned: the group is replaced by its value and the
\* invocation recurses.  An exception of the inner call ends this invocation.
combine_Resume ==
    /\ frames # <<>>
    /\ ret # Running
    /\ Top.wait = "group"
    /\ IF ret.st # "ok" THEN Finish(ret)
       ELSE \E sp \in {Splice(Top.terms, Top.ops, Top.L, Top.closest, ret.v)} :
                Invoke([Top EXCEPT !.wait = "tail"], sp.terms, sp.ops)

\* An exponent, multiplication/division or addition/subtraction step, and
\* the recursive call on the shortened lists.
combine_Binary ==
    /\ Active
    /\ AssertsHold(Top.terms, Top.ops)
    /\ Len(Top.terms) # 1
    /\ Len(Locs(Top.ops, "(")) = 0
    /\ NextOp(Top.ops) # ""
    /\ \E b \in {BinaryStep(Top.terms, Top.ops, PyIndex(Top.ops, Tok(NextOp(Top.ops))),
                            NextOp(Top.ops))} :
          IF b.st # "ok" THEN Finish(Raise(b.st))
          ELSE Invoke([Top EXCEPT !.wait = "tail"], b.terms, b.ops)

\* No case applies: the function ends without a return statement.
combine_None ==
    /\ Active
    /\ AssertsHold(Top.terms, Top.ops)
    /\ Len(Top.terms) # 1
    /\ Len(Locs(Top.ops, "(")) = 0
    /\ NextOp(Top.ops) = ""
    /\ Finish(Return(NoneT))

\* "return self.combine_terms(...)": the result of the recursive call, or
\* its exception, is this invocation's.
combine_Return ==
    /\ frames # <<>>
    /\ ret # Running
    /\ Top.wait = "tail"
    /\ Finish(ret)

\* A caller calls combine_terms(c.terms, c.ops).
combine_Call ==
    /\ frames = <<>>
    /\ ret = Running
    /\ \E c \in RawCalls :
        /\ call' = c
        /\ frames' = <<Frame(c.terms, c.ops)>>
    /\ UNCHANGED <<heap, objs, last, ret, genvars>>

NextCombine ==
    \/ combine_Call
    \/ combine_Assert
    \/ combine_Base
    \/ combine_Group
    \/ combine_Resume
    \/ combine_Binary
    \/ combine_None
    \/ combine_Return

SpecCombine == Init /\ [][NextCombine]_vars

\* ---------------------------------------------------------------- Generator
\* Problems held at a time.
MaxHeld == 2

\* The characters of a string literal of the source.
QuestionLabel == <<"Q", "u", "e", "s", "t", "i", "o", "n", ":", " ">>
SolutionLabel == <<"S", "o", "l", "u", "t", "i", "o", "n", ":", " ">>

\* Problem.__str__
Problem_str(p) ==
    QuestionLabel \o p.str_question \o <<"\n">> \o SolutionLabel \o p.str_solution

\* A comparison of the typeset texts instead of str(problem).
SameProblem_latex(p, q) ==
    p.latex_question = q.latex_question /\ p.latex_solution = q.latex_solution

\* "str(problem) == str(p)" of add_problem.
SameProblem(p, q) == Problem_str(p) = Problem_str(q)

\* The loop of add_problem finds a duplicate of p.
Held(p) == \E k \in 1..Len(problem_list) : SameProblem(problem_list[k], p)

\* The record of a Generator call.
GenCall(op, p, r) == [op |-> op, p |-> p, r |-> r]

\* No add_frac_to_dec / add_dec_to_frac call is running.  A running call
\* holds the reduced term v of its local expression and its local problem p.
Idle == [pc |-> "", kind |-> "", p |-> NoProblem, v |-> NoneT]

\* The frame of a Generator step: the Expressions and the followed
\* combine_terms call are not touched.
GenFrame == UNCHANGED <<heap, objs, last, call, frames, ret>>

\* The Problems the callers make from Expressions: one or two terms.
GenTerms == {Whole(2), Whole(3), Whole(-3)}

ExpressionProblems ==
    { r.p : r \in { a \in { ProblemOf(ur, ur, ops) :
                               ur \in UNION {[1..n -> GenTerms] : n \in 1..2},
                               ops \in PlainOps(1, {"+", "-"}) \cup PlainOps(2, {"+", "-"}) } :
                      a.st = "ok" } }

\* Problem(data) for a tuple: only the typeset texts are set.
TupleProblems ==
    { [NoProblem EXCEPT !.latex_question = lq, !.latex_solution = <<"1">>] :
        lq \in {<<"a">>, <<"b">>} }

\* Generator.add_problem(p), called by a caller of the Generator.
add_problem(p) ==
    /\ pending.pc = ""
    /\ IF Held(p)
       THEN /\ problem_list' = problem_list
            /\ returned' = GenCall("add_problem", p, "False")
       ELSE /\ Len(problem_list) < MaxHeld
            /\ problem_list' = Append(problem_list, p)
            /\ returned' = GenCall("add_problem", p, "True")
    /\ UNCHANGED pending
    /\ GenFrame

\* random.shuffle(self.problem_list): any order of the same Problems.
shuffle ==
    /\ pending.pc = ""
    /\ \E f \in Permutations(1..Len(problem_list)) :
           problem_list' = [k \in 1..Len(problem_list) |-> problem_list[f[k]]]
    /\ returned' = GenCall("shuffle", NoProblem, "None")
    /\ UNCHANGED pending
    /\ GenFrame

\* Generator.clear
clear ==
    /\ pending.pc = ""
    /\ problem_list' = <<>>
    /\ returned' = GenCall("clear", NoProblem, "None")
    /\ UNCHANGED pending
    /\ GenFrame

\* The reduced terms gen_numerical_expression(num_terms=1, types='f') makes.
FracTerms == {Num(1, 2), Num(1, 3), Num(2, 3), Num(-1, 2)}

RECURSIVE Pow10(_)
Pow10(k) == IF k = 0 THEN 1 ELSE 10 * Pow10(k - 1)

\* '%.5f' % float(v) for a rational v that is no tie at the sixth decimal.
Dec5(v) ==
    LET scaled == (2 * Abs(v.n) * Pow10(5) + v.d) \div (2 * v.d)
    IN  (IF v.n < 0 /\ scaled > 0 THEN <<"-">> ELSE <<>>)
        \o NatStr(scaled \div Pow10(5)) \o <<".">>
        \o SubSeq(NatStr(Pow10(5) + (scaled % Pow10(5))), 2, 6)

\* add_frac_to_dec / add_dec_to_frac, "problem = Problem(expression)": at
\* the start of the call or of another round of its loop.
frac_Create(kind) ==
    /\ pending.pc = "" \/ (pending.pc = "loop" /\ pending.kind = kind)
    /\ \E v \in FracTerms :
        \E r \in {ProblemOf(<<v>>, <<v>>, <<E, E>>)} :
           /\ r.st = "ok"
           /\ pending' = [pc |-> "created", kind |-> kind, p |-> r.p, v |-> v]
           /\ returned' = GenCall(kind, NoProblem, "None")
    /\ UNCHANGED problem_list
    /\ GenFrame

\* A substitution that keeps the plain text in step with the typeset text.
frac_Substitute_plain ==
    /\ pending.pc = "created"
    /\ pending' = [pending EXCEPT
                      !.pc = "substituted",
                      !.p = IF pending.kind = "add_frac_to_dec"
                            THEN [pending.p EXCEPT !.latex_solution = Dec5(pending.v),
                                                   !.str_solution = Dec5(pending.v)]
                            ELSE [pending.p EXCEPT !.latex_question = Dec5(pending.v),
                                                   !.str_question = Dec5(pending.v)]]
    /\ UNCHANGED <<problem_list, returned>>
    /\ GenFrame

\* "problem.latex_solution = solution" / "problem.latex_question = question"
\* with the decimal text of expression.reduced_terms[0].
frac_Substitute ==
    /\ pending.pc = "created"
    /\ pending' = [pending EXCEPT
                      !.pc = "substituted",
                      !.p = IF pending.kind = "add_frac_to_dec"
                            THEN [pending.p EXCEPT !.latex_solution = Dec5(pending.v)]
                            ELSE [pending.p EXCEPT !.latex_question = Dec5(pending.v)]]
    /\ UNCHANGED <<problem_list, returned>>
    /\ GenFrame

\* "if self.add_problem(problem): return", else another round of the loop.
frac_Add ==
    /\ pending.pc = "substituted"
    /\ IF Held(pending.p)
       THEN /\ problem_list' = problem_list
            /\ returned' = GenCall("add_problem", pending.p, "False")
            /\ pending' = [pending EXCEPT !.pc = "loop", !.p = NoProblem, !.v = NoneT]
       ELSE /\ Len(problem_list) < MaxHeld
            /\ problem_list' = Append(problem_list, pending.p)
            /\ returned' = GenCall("add_problem", pending.p, "True")
            /\ pending' = Idle
    /\ GenFrame

NextGen ==
    \/ \E p \in ExpressionProblems \cup TupleProblems : add_problem(p)
    \/ shuffle
    \/ clear
    \/ \E kind \in {"add_frac_to_dec", "add_dec_to_frac"} : frac_Create(kind)
    \/ frac_Substitute
    \/ frac_Add

SpecGen == Init /\ [][NextGen]_vars

\* The reduced terms gen_numerical_expression(num_terms=1, types='f',
\* max_lowest_term=1, max_multiple=1) makes: constants[0] and constants[1]
\* are 1 or -1.
LoopTerms == {Whole(1), Whole(-1)}

\* A caller calls add_frac_to_dec / add_dec_to_frac with max_lowest_term=1:
\* the call enters its "while(True)".
add_Call(kind) ==
    /\ pending.pc = ""
    /\ pending' = [Idle EXCEPT !.pc = "loop", !.kind = kind]
    /\ returned' = GenCall(kind, NoProblem, "None")
    /\ UNCHANGED problem_list
    /\ GenFrame

\* A round of the loop: gen_numerical_expression samples the term v, and
\* "problem = Problem(expression)".
add_Sample(v) ==
    /\ pending.pc = "loop"
    /\ \E r \in {ProblemOf(<<v>>, <<v>>, <<E, E>>)} :
           /\ r.st = "ok"
           /\ pending' = [pending EXCEPT !.pc = "created", !.p = r.p, !.v = v]
    /\ UNCHANGED <<problem_list, returned>>
    /\ GenFrame

\* The runs of callers that use add_frac_to_dec and add_dec_to_frac with
\* max_lowest_term=1, shuffle and clear.
NextLoop ==
    \/ \E kind \in {"add_frac_to_dec", "add_dec_to_frac"} : add_Call(kind)
    \/ \E v \in LoopTerms : add_Sample(v)
    \/ frac_Substitute
    \/ frac_Add
    \/ shuffle
    \/ clear

\* Fair random sampling: a call that is running takes its next step, and a
\* loop that goes round for ever samples every term again and again.  When
\* a caller calls is left open.
SpecLoop ==
    /\ Init /\ [][NextLoop]_vars
    /\ WF_vars(frac_Substitute)
    /\ WF_vars(frac_Add)
    /\ \A v \in LoopTerms : SF_vars(add_Sample(v))

\* ===================================================================== claims
\* ----------------------------------------------------------- Expressions
\* The lengths of the three lists of the Expression objs[i] agree.
LengthsAgree(i) ==
    /\ Len(objs[i].ur) = Len(objs[i].rd)
    /\ Len(OpsOf(i)) = Len(objs[i].ur) + 1

\* C1: every Expression reached by the constructor, zero_clean, simplify,
\* copy and the closure operators holds as many unreduced as reduced terms,
\* and one operator token more than terms.
C1_LengthInvariant == \A i \in 1..Len(objs) : LengthsAgree(i)

\* The characters of the tokens of ops, in order.
RECURSIVE Flat(_, _)
Flat(ops, k) == IF k > Len(ops) THEN <<>> ELSE ops[k] \o Flat(ops, k + 1)

\* Reading s from its k-th character at depth d, every ")" closes a group
\* that is open and no group stays open.
RECURSIVE NestedFrom(_, _, _)
NestedFrom(s, k, d) ==
    IF d < 0 THEN FALSE
    ELSE IF k > Len(s) THEN d = 0
    ELSE NestedFrom(s, k + 1, IF s[k] = "(" THEN d + 1 ELSE IF s[k] = ")" THEN d - 1 ELSE d)

\* The grouping marks of ops are balanced.
Balanced(ops) == The({NestedFrom(s, 1, 0) : s \in {Flat(ops, 1)}})

\* No unreduced term of the argument a of a call is zero.
NoZeroTerm(a) == \A k \in 1..Len(a.ur) : ~IsZero(a.ur[k])

\* The closure call last made did what the claims C3 and C4 say of the
\* track tr ("ur" or "rd"): combining the result gives the operator applied
\* to the combined operands, whenever both operands combine to a Term.
ClosureIsOp(tr) ==
    \E p \in {combine_terms(last.args[1][tr], last.args[1].ops)},
       q \in {combine_terms(last.args[2][tr], last.args[2].ops)},
       r \in {combine_terms(objs[last.obj][tr], OpsOf(last.obj))} :
        (IsTerm(p) /\ IsTerm(q)) => r = TermOp(last.op, p.v, q.v)

\* C3: for the closure operators -, *, /, ^ and operands that hold no zero
\* term (so that pruning plays no part), combining the reduced track of
\* p op q gives op applied to combine(p) and combine(q).
C3_ClosureParenthesizes ==
    (/\ last.op \in {"-", "*", "/", "^"}
     /\ last.st = "ok"
     /\ NoZeroTerm(last.args[1]) /\ NoZeroTerm(last.args[2]))
        => ClosureIsOp("rd")

\* C4: combining p + q gives combine(p) + combine(q), on the reduced and on
\* the unreduced track.
C4_AddRoundTrip ==
    (last.op = "+" /\ last.st = "ok") => (ClosureIsOp("rd") /\ ClosureIsOp("ur"))

\* C6: combine_terms returns a Term for the reduced track of every
\* Expression whose lengths agree and whose grouping marks are balanced
\* (an undefined operation of the engine, such as a division by zero, aside).
C6_CombineTotal ==
    \A i \in 1..Len(objs) :
        (LengthsAgree(i) /\ Balanced(OpsOf(i))) =>
            \E r \in {combine_terms(objs[i].rd, OpsOf(i))} :
                IsTerm(r) \/ r.st = "DomainError"

\* C10 as stated: no unreduced term is zero when a question is rendered.
C10_NoZeroRendered ==
    last.op = "Problem" => NoZeroTerm(last.args[1])

\* C10: when a question is rendered, an unreduced term is zero only if it
\* is the single term simplify left in the Expression.
C10_ZeroOnlyFromSimplify ==
    last.op = "Problem" =>
        (NoZeroTerm(last.args[1]) \/
         (objs[last.obj].via = "simplify" /\ Len(last.args[1].ur) = 1))

\* A question "0" was rendered from an Expression that simplify left.
C10_Witness ==
    /\ last.op = "Problem" /\ last.st = "ok"
    /\ last.args[1].ur = <<Whole(0)>>
    /\ last.prob.str_question = <<"0">>

\* ------------------------------------------------------------- pruning
\* The positions of u whose term is not zero, in increasing order.
KeptAt(u) == SelectSeq([k \in 1..Len(u) |-> k], LAMBDA k : ~IsZero(u[k]))

\* The terms of s at the positions where the term of u is not zero.
Kept(s, u) == [j \in 1..Len(KeptAt(u)) |-> s[KeptAt(u)[j]]]

\* C9: a pruning that ends (in the constructor, in zero_clean called on an
\* Expression, after the coefficient loop) leaves in both tracks exactly the
\* positions whose unreduced term is not zero, in their order.
C9_PrunesZeroUnreduced ==
    (last.op \in {"init", "zero_clean", "coeff"} /\ last.st = "ok") =>
        /\ objs[last.obj].ur = Kept(last.args[1].ur, last.args[1].ur)
        /\ objs[last.obj].rd = Kept(last.args[1].rd, last.args[1].ur)

\* The constructor pruned the middle one of three positions and kept a
\* position whose reduced term is zero.
C9_Witness ==
    /\ last.op = "init" /\ last.st = "ok"
    /\ last.args[1].ur = <<Whole(2), Whole(0), Whole(-3)>>
    /\ last.args[1].rd = <<Whole(0), Whole(2), Whole(-3)>>
    /\ objs[last.obj].ur = <<Whole(2), Whole(-3)>>
    /\ objs[last.obj].rd = <<Whole(0), Whole(-3)>>

\* ------------------------------------------------------------ rendering
\* No two sign characters are adjacent in the text t.
NoSignPair(t) ==
    \A k \in 1..(Len(t) - 1) : ~(t[k] \in {"+", "-"} /\ t[k + 1] \in {"+", "-"})

\* C8: the plain and the typeset question of a Problem hold none of "+-",
\* "-+", "--", "++", and the four replacements leave them as they are.
C8_SignsNormalized ==
    (last.op = "Problem" /\ last.st = "ok") =>
        /\ NoSignPair(last.prob.str_question)
        /\ NoSignPair(last.prob.latex_question)
        /\ CullSigns(last.prob.str_question) = last.prob.str_question
        /\ CullSigns(last.prob.latex_question) = last.prob.latex_question

\* 2 - (-3) was rendered as "2+3".
C8_Witness ==
    /\ last.op = "Problem" /\ last.st = "ok"
    /\ last.args[1].ur = <<Whole(2), Whole(-3)>>
    /\ last.args[1].ops = <<E, Tok("-"), E>>
    /\ last.prob.str_question = <<"2", "+", "3">>
    /\ last.prob.latex_question = <<"2", "+", "3">>

\* -------------------------------------------------------- combine_terms
\* A followed call has ended.
Ended == frames = <<>> /\ ret # Running

\* The operator character between the k-th and the next term (1-based k) of
\* a plain operator list.
Between(ops, k) == ops[k + 1][1]

\* x <c> y for two results; an undefined operand makes the result undefined.
Apply2(c, x, y) ==
    IF x.st # "ok" THEN x ELSE IF y.st # "ok" THEN y ELSE TermOp(c, x.v, y.v)

\* The operator characters of a precedence level: 1 lowest.
LevelChars(level) ==
    IF level = 1 THEN {"+", "-"} ELSE IF level = 2 THEN {"*", "/"} ELSE {"^"}

\* Infix evaluation of the terms lo..hi by precedence: the last operator of
\* the lowest level present splits the range, its left part is evaluated at
\* the same level and its right part at the next, so that each level is
\* left to right.
RECURSIVE Infix(_, _, _, _, _)
Infix(terms, ops, lo, hi, level) ==
    IF lo = hi THEN Return(terms[lo])
    ELSE LET at == {k \in lo..(hi - 1) : Between(ops, k) \in LevelChars(level)}
         IN  IF at = {} THEN Infix(terms, ops, lo, hi, level + 1)
             ELSE The({ The({ Apply2(Between(ops, k), x, y) :
                              x \in {Infix(terms, ops, lo, k, level)},
                              y \in {Infix(terms, ops, k + 1, hi, level + 1)} }) :
                        k \in {CHOOSE k \in at : \A j \in at : j <= k} })

\* The call has one term or more, and a plain operator list for them.
PlainCall(c) ==
    /\ Len(c.terms) >= 1
    /\ c.ops \in PlainOps(Len(c.terms), OpChars)

\* C2: on a term sequence and a plain operator list (empty first and last
\* tokens, single operator characters between), combine_terms returns the
\* value of infix evaluation by precedence: ^, then * and /, then + and -,
\* each level left to right.
C2_InfixEvaluation ==
    (Ended /\ PlainCall(call)) => ret = Infix(call.terms, call.ops, 1, Len(call.terms), 1)

\* 2 + 3 * 2 was combined to 8.
C2_Witness ==
    /\ Ended
    /\ call.terms = <<Whole(2), Whole(3), Whole(2)>>
    /\ call.ops = <<E, Tok("+"), Tok("*"), E>>
    /\ ret = Return(Whole(8))

\* What C5 says a call on [a, b, c] returns when o1 joins the grouped pair
\* x, y and o2 joins the group g with the third term (g left or right).
GroupThen(o1, x, y, o2, left, z) ==
    The({ IF g.st # "ok" THEN g
          ELSE IF left THEN combine_terms(<<g.v, z>>, <<E, Tok(o2), E>>)
          ELSE combine_terms(<<z, g.v>>, <<E, Tok(o2), E>>) :
          g \in {TermOp(o1, x, y)} })

\* C5: a group around the first two of three terms, or around the last
\* two, is resolved before the operator outside it.
C5_GroupFirst ==
    (Ended /\ Len(call.terms) = 3) =>
        \A o1 \in OpChars, o2 \in OpChars :
            /\ call.ops = <<Tok("("), Tok(o1), <<")", o2>>, E>> =>
                   ret = GroupThen(o1, call.terms[1], call.terms[2], o2, TRUE, call.terms[3])
            /\ call.ops = <<E, <<o1, "(">>, Tok(o2), Tok(")")>> =>
                   ret = GroupThen(o2, call.terms[2], call.terms[3], o1, FALSE, call.terms[1])

\* (2 + 3) * 2 was combined to 10, where 2 + 3 * 2 is 8.
C5_Witness ==
    /\ Ended
    /\ call.terms = <<Whole(2), Whole(3), Whole(2)>>
    /\ call.ops = <<Tok("("), Tok("+"), <<")", "*">>, E>>
    /\ ret = Return(Whole(10))

\* The size of the lists of an invocation: its terms, and twice its tokens
\* that open a group.
Size(f) == Len(f.terms) + 2 * Len(Locs(f.ops, "("))

RECURSIVE Pow2(_)
Pow2(k) == IF k = 0 THEN 1 ELSE 2 * Pow2(k - 1)

\* The steps an invocation on lists of size n takes at most, with those of
\* the invocations it makes: Work(0) = 1 and Work(n) = 3 + 2 * Work(n - 1).
Work(n) == Pow2(n + 2) - 3

\* The steps left to an invocation and to those it has yet to make.
StepsLeft(f) ==
    IF f.wait = "tail" THEN 1
    ELSE IF f.wait = "group" THEN Work(Size(f) - 1) + 2
    ELSE Work(Size(f))

RECURSIVE RankFrom(_)
RankFrom(k) == IF k = 0 THEN 0 ELSE StepsLeft(frames[k]) + RankFrom(k - 1)

\* A natural number that bounds the steps left to the followed call.
Rank == RankFrom(Len(frames))

\* An unfinished call can take a step: the invocation on top runs, or the
\* invocation it waited for has ended, and the stack has room for a call.
CanStep ==
    frames # <<>> =>
        /\ Len(frames) < MaxDepth
        /\ ret = Running => Top.wait = ""
        /\ ret # Running => Top.wait \in {"group", "tail"}

\* C7: combine_terms ends on every input: an unfinished call can always
\* take a step, and every step of an unfinished call lowers a natural
\* number.
C7_Terminates ==
    /\ []CanStep
    /\ [][frames # <<>> => Rank' < Rank]_vars

\* A call whose own assertions held ended with the assertion error of a
\* recursive call.
C7_Witness ==
    /\ Ended
    /\ AssertsHold(call.terms, call.ops)
    /\ Len(call.terms) = 3
    /\ ret.st = "AssertionError"

\* ------------------------------------------------------ errors of combine_terms
\* The numbers of tokens of ops holding "(" and holding ")" differ.
CountsDiffer(ops) == Len(Locs(ops, "(")) # Len(Locs(ops, ")"))

\* Both marks occur, and the first token holding "(" is not strictly before
\* the first token holding ")".
FirstCloseNotAfter(ops) ==
    /\ Len(Locs(ops, "(")) # 0
    /\ Len(Locs(ops, ")")) # 0
    /\ ~(Locs(ops, "(")[1] < Locs(ops, ")")[1])

\* C11: on two or more terms, combine_terms raises an error and returns no
\* Term when the tokens holding "(" and those holding ")" differ in number,
\* or when the first token holding "(" is not strictly before the first
\* token holding ")".
C11_UnbalancedRejected ==
    (Ended /\ Len(call.terms) >= 2
           /\ (CountsDiffer(call.ops) \/ FirstCloseNotAfter(call.ops)))
        => ret.st = "AssertionError"

\* 2 + 3 with a closing mark and no opening mark was rejected.
C11_Witness ==
    /\ Ended
    /\ call.terms = <<Whole(2), Whole(3)>>
    /\ call.ops = <<E, Tok("+"), Tok(")")>>
    /\ ret = Raise("AssertionError")

\* The fused token of 2 )+( 3 is the first of both kinds: rejected.
C11_WitnessOrder ==
    /\ Ended
    /\ call.terms = <<Whole(2), Whole(3)>>
    /\ call.ops = <<E, <<")", "+", "(">>, E>>
    /\ ret = Raise("AssertionError")

\* ----------------------------------------------------------- length mismatch
\* The three lists the constructor received in the last call: the lists of
\* the caller or of the Expression copied, or those a closure operator built
\* from its two operands.
CtorInput ==
    IF last.op \in {"init", "copy"} THEN last.args[1]
    ELSE Pre(last.args[1].ur \o last.args[2].ur, last.args[1].rd \o last.args[2].rd,
             ClosureOps(last.args[1].ops, last.op, last.args[2].ops))

\* C12: a constructor call with len(operations) # len(unreduced_terms) + 1 or
\* len(unreduced_terms) # len(reduced_terms) raises an error and makes no
\* Expression, and combine_terms (called by simplify on the unreduced terms)
\* with len(ops) # len(terms) + 1 raises an error and returns no Term.
C12_LengthMismatchRejected ==
    /\ (last.op \in {"init", "copy"} \cup OpChars
            /\ (Len(CtorInput.ops) # Len(CtorInput.ur) + 1
                  \/ Len(CtorInput.ur) # Len(CtorInput.rd)))
          => (last.st = "AssertionError" /\ last.obj = 0)
    /\ (last.op = "simplify" /\ Len(last.args[1].ops) # Len(last.args[1].ur) + 1)
          => (last.st = "AssertionError"
              /\ objs[last.obj].ur = last.args[1].ur
              /\ combine_terms(last.args[1].ur, last.args[1].ops) = Raise("AssertionError"))

\* The constructor was given two unreduced terms and one reduced term, with
\* three operator tokens, and raised.
C12_Witness ==
    /\ last.op = "init"
    /\ Len(last.args[1].ur) = 2 /\ Len(last.args[1].rd) = 1 /\ Len(last.args[1].ops) = 3
    /\ last.st = "AssertionError"
    /\ objs = <<>>

\* simplify was called on an Expression with one term and one operator
\* token, and raised.
C12_WitnessCombine ==
    /\ last.op = "simplify"
    /\ Len(last.args[1].ur) = 1 /\ Len(last.args[1].ops) = 1
    /\ last.st = "AssertionError"

\* ---------------------------------------------------------------- Generator
\* Two Problems have the same plain-text question and plain-text solution.
SamePlain(p, q) ==
    p.str_question = q.str_question /\ p.str_solution = q.str_solution

\* problem_list holds no two Problems with the same plain texts.
NoDuplicates ==
    \A i \in 1..Len(problem_list), j \in 1..Len(problem_list) :
        i < j => ~SamePlain(problem_list[i], problem_list[j])

\* A step that is an add_problem(p) call returns False and leaves the list
\* alone when a Problem with p's plain texts is held, and else appends p at
\* the end and returns True.
AddContract ==
    returned'.op = "add_problem" =>
        IF \E k \in 1..Len(problem_list) : SamePlain(problem_list[k], returned'.p)
        THEN returned'.r = "False" /\ problem_list' = problem_list
        ELSE returned'.r = "True" /\ problem_list' = Append(problem_list, returned'.p)

\* C13: after any sequence of add_problem, shuffle and clear calls (and the
\* add_problem calls of add_frac_to_dec / add_dec_to_frac), problem_list
\* holds no two Problems with the same plain-text question and solution, and
\* add_problem returns False without a change when such a Problem is held
\* and else appends the Problem at the end and returns True.
C13_Deduplication == []NoDuplicates /\ [][AddContract]_vars

\* A Problem made from a tuple was refused because another one, with another
\* typeset question and the same (empty) plain texts, is held.
C13_Witness ==
    /\ returned.op = "add_problem" /\ returned.r = "False"
    /\ Len(problem_list) = 2
    /\ returned.p \in TupleProblems
    /\ \E k \in 1..2 : /\ problem_list[k] \in TupleProblems
                         /\ problem_list[k].latex_question # returned.p.latex_question

\* A running add_frac_to_dec / add_dec_to_frac call holds a Problem it made.
HasLocal(q) == q.pc \in {"created", "substituted"}

\* The Problems held stay as they are while they are held: every Problem of
\* the list is in the list after the step, unless the step is clear.
HeldFrozen ==
    returned'.op # "clear" =>
        \A k \in 1..Len(problem_list) :
            \E j \in 1..Len(problem_list') : problem_list'[j] = problem_list[k]

\* The Problem a running call adds is its local Problem as it is.
AddedAsIs ==
    (pending.pc = "substituted" /\ Len(problem_list') > Len(problem_list))
        => problem_list'[Len(problem_list')] = pending.p

\* The local Problem of a running call keeps its four texts.
LocalFrozen ==
    (HasLocal(pending) /\ HasLocal(pending')) => pending'.p = pending.p

\* The local Problem of a running call keeps its plain texts, and of its
\* typeset texts add_frac_to_dec may change the solution only and
\* add_dec_to_frac the question only.
LocalPlainFrozen ==
    (HasLocal(pending) /\ HasLocal(pending')) =>
        /\ pending'.p.str_question = pending.p.str_question
        /\ pending'.p.str_solution = pending.p.str_solution
        /\ pending.kind = "add_frac_to_dec" => pending'.p.latex_question = pending.p.latex_question
        /\ pending.kind = "add_dec_to_frac" => pending'.p.latex_solution = pending.p.latex_solution

\* C14 as stated: once a Problem has been created, no later step of the
\* Generator, add_frac_to_dec and add_dec_to_frac included, changes any of
\* its four texts.
C14_ProblemFrozen == [][LocalFrozen /\ HeldFrozen /\ AddedAsIs]_vars

\* C14 as amended: a Problem held in problem_list is never changed;
\* add_frac_to_dec replaces the typeset solution, and add_dec_to_frac the
\* typeset question, of the Problem it has just created, before adding it,
\* and changes none of its other texts.
C14_HeldProblemFrozen == [][LocalPlainFrozen /\ HeldFrozen /\ AddedAsIs]_vars

\* add_frac_to_dec has replaced the typeset solution of its Problem for 1/3
\* by 0.33333, the plain solution is still 1/3, and a Problem is held.
C14_Witness ==
    /\ pending.pc = "substituted" /\ pending.kind = "add_frac_to_dec"
    /\ pending.p.latex_solution = <<"0", ".", "3", "3", "3", "3", "3">>
    /\ pending.p.str_solution = <<"1", "/", "3">>
    /\ problem_list # <<>>

\* ------------------------------------------------------------- construction
\* C15: a constructor call that made an Expression left the sequences it
\* was passed as they were: the operator list (the list object the new
\* Expression now refers to) has the contents it had before the call, and
\* for copy() the Expression copied still has its two term lists.
C15_ConstructorKeepsArguments ==
    (last.op \in {"init", "copy"} /\ last.st = "ok") =>
        /\ OpsOf(last.obj) = last.args[1].ops
        /\ last.op = "copy" =>
               \E k \in 1..Len(objs) :
                   /\ k # last.obj
                   /\ objs[k].ops = objs[last.obj].ops
                   /\ objs[k].ur = last.args[1].ur
                   /\ objs[k].rd = last.args[1].rd

\* ------------------------------------------------- the token a pruning deletes
\* The tokens of ops left when, for every zero term of u at position t
\* (1-based), the token at position t + shift is deleted: shift = 0 deletes
\* the token before the term, shift = 1 the token after it.
TokensLeft(ops, u, shift) ==
    LET at == SelectSeq([k \in 1..Len(ops) |-> k],
                        LAMBDA k : ~(k - shift \in 1..Len(u) /\ IsZero(u[k - shift])))
    IN  [j \in 1..Len(at) |-> ops[at[j]]]

\* The last call was a pruning that ended and removed a term.
Pruned ==
    /\ last.op \in {"init", "zero_clean", "coeff"} /\ last.st = "ok"
    /\ \E k \in 1..Len(last.args[1].ur) : IsZero(last.args[1].ur[k])

\* C16 as stated: the token a pruning deletes with the term at position i is
\* the one after the term, between term i and term i + 1, and the token
\* before the term is kept.
C16_DeletesFollowingToken ==
    Pruned => OpsOf(last.obj) = TokensLeft(last.args[1].ops, last.args[1].ur, 1)

\* C16 as amended: the token a pruning deletes with the term at position i
\* is operations[i], the one before the term (the leading token for the
\* first term), and the token after the term is kept.
C16_DeletesPrecedingToken ==
    Pruned => OpsOf(last.obj) = TokensLeft(last.args[1].ops, last.args[1].ur, 0)

\* 2 + 0 - 3 was pruned to 2 - 3: the "+" before the zero is gone and the
\* "-" after it is kept.
C16_Witness ==
    /\ last.op = "init" /\ last.st = "ok"
    /\ last.args[1].ur = <<Whole(2), Whole(0), Whole(-3)>>
    /\ last.args[1].ops = <<E, Tok("+"), Tok("-"), E>>
    /\ objs[last.obj].ur = <<Whole(2), Whole(-3)>>
    /\ OpsOf(last.obj) = <<E, Tok("-"), E>>

\* ------------------------------------------- the lengths the recursion passes
\* This step is "return self.combine_terms(terms, ops)": the invocation on top
\* calls itself on its own lists after a grouping or a binary step.
TailCall ==
    /\ frames # <<>>
    /\ Len(frames') = Len(frames) + 1
    /\ frames'[Len(frames)].wait = "tail"

\* The number of terms the recursive call receives.
Passed == Len(frames'[Len(frames')].terms)

\* C17 as stated: every recursive step, the grouping step included, passes
\* the next recursive call on the outer sequence a term sequence exactly one
\* element shorter than the one the invocation received.
C17_OneShorter ==
    [][TailCall => Passed = Len(Top.terms) - 1]_vars

\* C17 as amended: an exponent, multiplication/division or
\* addition/subtraction step passes a term sequence exactly one element
\* shorter; a grouping step passes one that is k - 1 elements shorter, where
\* k >= 1 is the number of terms of the group it resolved.
C17_ShorterByGroup ==
    [][TailCall =>
         IF Top.wait = "group"
         THEN /\ Top.closest - Top.L >= 1
              /\ Passed = Len(Top.terms) - (Top.closest - Top.L - 1)
         ELSE Passed = Len(Top.terms) - 1]_vars

\* (2 + 3 + 2): the group of three terms was resolved and the recursive call
\* received one term, two fewer than the three of its caller.
C17_Witness ==
    /\ Len(frames) >= 2
    /\ frames[Len(frames) - 1].wait = "tail"
    /\ frames[Len(frames) - 1].closest - frames[Len(frames) - 1].L = 3
    /\ Len(frames[Len(frames) - 1].terms) = 3
    /\ Len(Top.terms) = 1

\* ------------------------------------------------------- the exponent step
\* The invocation on top takes the exponent step and recurses: its operator
\* list has no grouping marks and a "^" token.
ExponentStep ==
    /\ TailCall
    /\ Top.wait = ""
    /\ Len(Locs(Top.ops, "(")) = 0
    /\ \E k \in 1..Len(Top.ops) : Top.ops[k] = Tok("^")

\* The position (from 0) of the leftmost "^" token of ops.
Caret(ops) == (CHOOSE k \in 1..Len(ops) : ops[k] = Tok("^") /\ \A j \in 1..(k - 1) : ops[j] # Tok("^")) - 1

\* The lists C18 says the step passes on for the "^" at position i (from 0):
\* terms[i - 1] ^ terms[i] stands where terms[i] stood, terms[i - 1] and
\* the operator at i are gone.
Raised(terms, ops, i) ==
    [terms |-> SubSeq(terms, 1, i - 1) \o <<Term_pow(terms[i], terms[i + 1]).v>>
                  \o SubSeq(terms, i + 2, Len(terms)),
     ops |-> SubSeq(ops, 1, i) \o SubSeq(ops, i + 2, Len(ops))]

\* C18: exponentiation is applied at the leftmost "^" first.  A call on
\* [a, b, c] with the operators ['', '^', '^', ''] returns (a^b)^c, and every
\* exponent step passes on the lists in which terms[i] is replaced by
\* terms[i-1] ^ terms[i] and terms[i-1] and the operator at i are removed, i
\* being the position of the leftmost "^".
C18_LeftmostExponent ==
    /\ []((Ended /\ Len(call.terms) = 3 /\ call.ops = <<E, Tok("^"), Tok("^"), E>>) =>
            ret = Apply2("^", Term_pow(call.terms[1], call.terms[2]), Return(call.terms[3])))
    /\ [][ExponentStep =>
            /\ Caret(Top.ops) \in 1..(Len(Top.terms) - 1)
            /\ frames'[Len(frames')].terms = Raised(Top.terms, Top.ops, Caret(Top.ops)).terms
            /\ frames'[Len(frames')].ops = Raised(Top.terms, Top.ops, Caret(Top.ops)).ops]_vars

\* 2 ^ 3 ^ 2 was combined to (2^3)^2 = 64, not to 2^(3^2) = 512.
C18_Witness ==
    /\ Ended
    /\ call.terms = <<Whole(2), Whole(3), Whole(2)>>
    /\ call.ops = <<E, Tok("^"), Tok("^"), E>>
    /\ ret = Return(Whole(64))

\* ------------------------------------------------- well-nested grouping
\* The number of elements of s equal to ch.
Count(s, ch) == Len(SelectSeq(s, LAMBDA x : x = ch))

\* The opening marks of the tokens 1..k and the closing marks of the tokens
\* 1..k of ops.
Opened(ops, k) == Len(SelectSeq(SubSeq(ops, 1, k), LAMBDA t : Count(t, "(") = 1))
Closed(ops, k) == Len(SelectSeq(SubSeq(ops, 1, k), LAMBDA t : Count(t, ")") = 1))

\* The operator lists C19 is about, for the terms of a call: the first token
\* is empty or "(", the last is empty or ")", a token between two terms is
\* an operator character, alone or with ")" before it, "(" after it or
\* both, and the marks nest: a closing mark always closes a group that is
\* open, and every group is closed at the end.
WellNested(c) ==
    /\ Len(c.terms) >= 1
    /\ c.ops \in RawOps(Len(c.terms))
    /\ \A k \in 1..Len(c.ops) : Closed(c.ops, k) <= Opened(c.ops, k - 1)
    /\ Closed(c.ops, Len(c.ops)) = Opened(c.ops, Len(c.ops))

\* The operator character between term k and term k + 1, and the number of
\* groups open where it stands.
OpOf(ops, k) == CHOOSE ch \in OpChars : Count(ops[k + 1], ch) = 1
DepthOf(ops, k) == Opened(ops, k) - Closed(ops, k + 1)

\* The precedence level of an operator character: 1 lowest.
LevelOf(ch) == IF ch \in {"+", "-"} THEN 1 ELSE IF ch \in {"*", "/"} THEN 2 ELSE 3

\* The conventional value of the parenthesized expression over the terms
\* lo..hi: of the operators outside every group of the range (those at the
\* least depth), the last one of the lowest precedence is applied last, to
\* the values of what stands left and right of it.
RECURSIVE Conventional(_, _, _, _)
Conventional(terms, ops, lo, hi) ==
    IF lo = hi THEN Return(terms[lo])
    ELSE LET out == {k \in lo..(hi - 1) : \A j \in lo..(hi - 1) : DepthOf(ops, k) <= DepthOf(ops, j)}
             low == {k \in out : \A j \in out : LevelOf(OpOf(ops, k)) <= LevelOf(OpOf(ops, j))}
         IN  The({ The({ Apply2(OpOf(ops, k), x, y) :
                         x \in {Conventional(terms, ops, lo, k)},
                         y \in {Conventional(terms, ops, k + 1, hi)} }) :
                   k \in {CHOOSE k \in low : \A j \in low : j <= k} })

\* C19: on an operator list with well-nested grouping, each token holding at
\* most one "(" and at most one ")" (sibling groups joined by a token such
\* as ")*(" and a group inside another included), combine_terms, which
\* resolves the last opening token with the nearest closing token after it,
\* returns the value of the conventionally parenthesized expression.
C19_GroupingEvaluation ==
    (Ended /\ WellNested(call)) =>
        ret = Conventional(call.terms, call.ops, 1, Len(call.terms))

\* (2 + (3) * 2): the group inside the group was resolved first and the call
\* returned 8.
C19_Witness ==
    /\ Ended
    /\ call.terms = <<Whole(2), Whole(3), Whole(2)>>
    /\ call.ops = <<Tok("("), <<"+", "(">>, <<")", "*">>, Tok(")")>>
    /\ ret = Return(Whole(8))

\* (2) - (3) * (2): sibling groups joined by fused tokens; the call returned -4.
C19_WitnessSiblings ==
    /\ Ended
    /\ call.terms = <<Whole(2), Whole(3), Whole(2)>>
    /\ call.ops = <<Tok("("), <<")", "-", "(">>, <<")", "*", "(">>, Tok(")")>>
    /\ ret = Return(Whole(-4))

\* ------------------------------------------------------------------ simplify
\* simplify() has returned on an Expression that had at least one term.
Simplified ==
    /\ last.op = "simplify" /\ last.st = "ok"
    /\ Len(last.args[1].ur) >= 1

\* C20: simplify leaves an Expression that had one or more terms with one
\* unreduced term, the result of combining its unreduced terms, one reduced
\* term, the result of combining its reduced terms, both with the operator
\* list as it was before the call, and with the operators ['', ''].
C20_SimplifyCollapses ==
    Simplified =>
        /\ objs[last.obj].ur = <<combine_terms(last.args[1].ur, last.args[1].ops).v>>
        /\ objs[last.obj].rd = <<combine_terms(last.args[1].rd, last.args[1].ops).v>>
        /\ combine_terms(last.args[1].ur, last.args[1].ops).st = "ok"
        /\ combine_terms(last.args[1].rd, last.args[1].ops).st = "ok"
        /\ OpsOf(last.obj) = <<E, E>>

\* An Expression of two or more terms whose tracks differ was simplified,
\* and its two terms differ.
C20_Witness ==
    /\ Simplified
    /\ Len(last.args[1].ur) >= 2
    /\ last.args[1].ur # last.args[1].rd
    /\ objs[last.obj].ur # objs[last.obj].rd

\* ------------------------------------------------- malformed operator lists
\* A token between two terms of ops holds none of the operator characters.
BlankToken(ops) ==
    \E k \in 2..(Len(ops) - 1) : \A ch \in OpChars : Count(ops[k], ch) = 0

\* No token after the last opening token of ops holds a closing mark.
LastGroupOpen(ops) ==
    /\ Len(Locs(ops, "(")) # 0
    /\ \A k \in 1..Len(Locs(ops, ")")) :
           Locs(ops, ")")[k] <= Locs(ops, "(")[Len(Locs(ops, "("))]

\* C21: a call of combine_terms on two or more terms whose operator list
\* has a token between two terms that is no operator (an empty token, say),
\* or whose last opening mark has no closing mark after it, ends with an
\* error: it never returns normally without a Term.
C21_NoSilentResult ==
    (Ended /\ Len(call.terms) >= 2 /\ Len(call.ops) = Len(call.terms) + 1
           /\ (BlankToken(call.ops) \/ LastGroupOpen(call.ops)))
        => ret.st # "ok"

\* ------------------------------------------------- operands are left alone
\* This step is a closure operator or Problem(e).
ReadingCall == last'.op \in OpChars \cup {"Problem"}

\* The Expressions held before the step have the terms and the operators
\* they had, and share operator lists with each other as they did.
OperandsKept ==
    /\ Len(objs') >= Len(objs)
    /\ \A k \in 1..Len(objs) :
          /\ objs'[k].ur = objs[k].ur
          /\ objs'[k].rd = objs[k].rd
          /\ heap'[objs'[k].ops] = heap[objs[k].ops]
          /\ \A m \in 1..Len(objs) : (objs'[k].ops = objs'[m].ops) <=> (objs[k].ops = objs[m].ops)

\* The Expression a closure operator returned has an operator list of its own.
ResultOwnsList ==
    (last'.op \in OpChars /\ last'.st = "ok") =>
        /\ Len(objs') = Len(objs) + 1
        /\ last'.obj = Len(objs')
        /\ \A k \in 1..Len(objs) : objs'[k].ops # objs'[Len(objs')].ops

\* C22: the closure operators and Problem rendering (which calls
\* combine_terms on the Expression) leave their operands as they were: the
\* unreduced terms, reduced terms and operators of every Expression held are
\* the same after the call, and the result of a closure operator shares no
\* list with them.
C22_OperandsUnchanged ==
    [][ReadingCall => (OperandsKept /\ ResultOwnsList)]_vars

\* r = p - q was built from two different Expressions of two terms and one
\* term (so that a term was pruned from neither), p and q are held as
\* they were, and r has the three terms.
C22_Witness ==
    /\ last.op = "-" /\ last.st = "ok" /\ last.obj = 3 /\ Len(objs) = 3
    /\ Len(last.args[1].ur) = 2 /\ Len(last.args[2].ur) = 1
    /\ objs[1].ur = last.args[1].ur /\ OpsOf(1) = last.args[1].ops
    /\ objs[2].ur = last.args[2].ur /\ OpsOf(2) = last.args[2].ops
    /\ Len(objs[3].ur) = 3

\* Problem(p) has rendered an Expression of two terms that is held as it was.
C22_WitnessProblem ==
    /\ last.op = "Problem" /\ last.st = "ok"
    /\ Len(last.args[1].ur) = 2
    /\ objs[last.obj].ur = last.args[1].ur
    /\ objs[last.obj].rd = last.args[1].rd
    /\ OpsOf(last.obj) = last.args[1].ops

\* ------------------------------------------------ signs before negative terms
\* The text of the token tok and of the term text txt that follows it, as
\* C23 says it appears: a "+" before a text that starts with "-" is dropped,
\* and a "-" before such a text makes one "+" with it.
Merged(tok, txt) ==
    IF Len(tok) > 0 /\ Len(txt) > 0 /\ txt[1] = "-" /\ tok[Len(tok)] = "+"
    THEN SubSeq(tok, 1, Len(tok) - 1) \o txt
    ELSE IF Len(tok) > 0 /\ Len(txt) > 0 /\ txt[1] = "-" /\ tok[Len(tok)] = "-"
    THEN SubSeq(tok, 1, Len(tok) - 1) \o <<"+">> \o SubSeq(txt, 2, Len(txt))
    ELSE tok \o txt

\* The question C23 describes for the terms ur[k..] and their tokens.
RECURSIVE SignedFrom(_, _, _, _)
SignedFrom(ur, ops, k, latex) ==
    IF k > Len(ur) THEN (IF latex THEN convert_op_to_latex(ops[Len(ops)]) ELSE ops[Len(ops)])
    ELSE (IF latex THEN Merged(convert_op_to_latex(ops[k]), latex_term(ur[k]))
          ELSE Merged(ops[k], str_term(ur[k])))
         \o SignedFrom(ur, ops, k + 1, latex)

\* A "+" or "-" token stands before a term whose text starts with "-".
SignBeforeMinus(ur, ops) ==
    \E k \in 1..Len(ur) :
        /\ ops[k] \in {Tok("+"), Tok("-")}
        /\ IsNum(ur[k]) /\ ur[k].n < 0

\* C23: in the rendered question (plain and typeset) a "+" followed by a
\* term whose text starts with "-" appears as the one "-" of the term, a "-"
\* followed by such a term appears as one "+", and every other token and
\* term appears as it is: the text never shows "a+-b" or "a--b".
C23_SignsMerged ==
    (last.op = "Problem" /\ last.st = "ok" /\ Len(last.args[1].ops) = Len(last.args[1].ur) + 1) =>
        /\ last.prob.str_question = SignedFrom(last.args[1].ur, last.args[1].ops, 1, FALSE)
        /\ last.prob.latex_question = SignedFrom(last.args[1].ur, last.args[1].ops, 1, TRUE)

\* 2 + (-3) - (-3) was rendered as "2-3+3".
C23_Witness ==
    /\ last.op = "Problem" /\ last.st = "ok"
    /\ last.args[1].ur = <<Whole(2), Whole(-3), Whole(-3)>>
    /\ last.args[1].ops = <<E, Tok("+"), Tok("-"), E>>
    /\ SignBeforeMinus(last.args[1].ur, last.args[1].ops)
    /\ last.prob.str_question = <<"2", "-", "3", "+", "3">>

\* ------------------------------------------------------ the add_* loops
\* C24: every call of an add_* method eventually returns, under fair random
\* sampling, after any number of earlier add_* calls with the same
\* parameters, and on return problem_list is exactly one Problem longer than
\* it was.
C24_AddReturns ==
    /\ (pending.pc # "") ~> (pending.pc = "")
    /\ [][(pending.pc # "" /\ pending'.pc = "") =>
            Len(problem_list') = Len(problem_list) + 1]_vars

\* ------------------------------------------------- pruning and the value
\* The constructor was given a sum (tokens "+" and "-" only, no grouping
\* marks) with a term that is zero in both tracks, and no term that is zero
\* in the unreduced track only.
PrunedSum ==
    /\ last.op = "init" /\ last.st = "ok"
    /\ Len(last.args[1].ur) >= 1
    /\ last.args[1].ops \in PlainOps(Len(last.args[1].ur), {"+", "-"})
    /\ \E k \in 1..Len(last.args[1].ur) : IsZero(last.args[1].ur[k])
    /\ \A k \in 1..Len(last.args[1].ur) :
           IsZero(last.args[1].ur[k]) => IsZero(last.args[1].rd[k])

\* C25: pruning preserves the value of a sum.  When the constructor prunes
\* terms that are zero in both tracks from a sequence without grouping marks
\* whose operators are all "+" or "-", whatever their position, the reduced
\* track of the Expression combines to the value the unpruned lists combine
\* to.
C25_PruningKeepsSum ==
    PrunedSum =>
        combine_terms(objs[last.obj].rd, OpsOf(last.obj))
            = combine_terms(last.args[1].rd, last.args[1].ops)

\* ------------------------------------------------- pruning and grouping
\* combine_terms accepts the grouping marks of ops: as many opening as
\* closing tokens, and the first opening token before the first closing one.
Accepted(ops) ==
    /\ Len(Locs(ops, "(")) = Len(Locs(ops, ")"))
    /\ Len(Locs(ops, "(")) # 0 => Locs(ops, "(")[1] < Locs(ops, ")")[1]

\* The operator list the last call gave to the constructor: the caller's
\* list, or the list a closure operator built from its operands' lists.
GivenOps ==
    IF last.op \in OpChars
    THEN ClosureOps(last.args[1].ops, last.op, last.args[2].ops)
    ELSE last.args[1].ops

\* C26: pruning keeps the grouping balanced.  When the operator list given
\* to the constructor (by a caller, or by a closure operator, also for an
\* operand whose term became zero through simplify) is one combine_terms
\* accepts, the operator list of the Expression constructed is accepted as
\* well, and combine_terms on it raises no AssertionError.
C26_PruningKeepsGrouping ==
    (last.op \in OpChars \cup {"init"} /\ last.st = "ok" /\ Accepted(GivenOps)) =>
        /\ Accepted(OpsOf(last.obj))
        /\ combine_terms(objs[last.obj].rd, OpsOf(last.obj)).st # "AssertionError"

\* ------------------------------------------------- the typeset worksheet
\* Two Problems have the same typeset question and the same typeset solution.
SameTypeset(p, q) ==
    p.latex_question = q.latex_question /\ p.latex_solution = q.latex_solution

\* problem_list holds no two Problems with the same typeset texts.
NoTypesetDuplicates ==
    \A i \in 1..Len(problem_list), j \in 1..Len(problem_list) :
        i < j => ~SameTypeset(problem_list[i], problem_list[j])

\* An add_problem(p) call that returns False has found a held Problem with
\* p's typeset texts.
RejectsOnlyTypesetDuplicates ==
    (returned'.op = "add_problem" /\ returned'.r = "False") =>
        \E k \in 1..Len(problem_list) : SameTypeset(problem_list[k], returned'.p)

\* C27: the worksheet shows no repeated problem.  problem_list never holds
\* two Problems with the same typeset question and typeset solution, and
\* add_problem never rejects a Problem whose typeset question or typeset
\* solution differs from those of every Problem held, Problems made from a
\* tuple and by add_frac_to_dec / add_dec_to_frac included.
C27_TypesetDeduplication ==
    []NoTypesetDuplicates /\ [][RejectsOnlyTypesetDuplicates]_vars

====
